---- MODULE Spec2Model ----
(***************************************************************************)
(* Bumper Balls Arena: the server-side session engine (bumper-balls logic  *)
(* in src/README.md, lines 347-1226) together with the lobby handlers of   *)
(* the server (src/unnamed/part_002) that drive it.                        *)
(*                                                                         *)
(* Units.  Time is in milliseconds (Date.now()).  Lengths are in 1/100 of  *)
(* an arena unit, velocities in 1/100 unit per second, stamina in 1/1000   *)
(* of a stamina point; forces keep the source's numbers (units/s^2).       *)
(* Divisions truncate toward zero.  A coordinate that the JavaScript       *)
(* arithmetic turns into NaN is recorded by the ball's nan flag.           *)
(*                                                                         *)
(* One room is modelled.  A payload (BumperBallsGameData object) is named  *)
(* by its index in payloads; a registry entry object by its eid; a timer   *)
(* handle by the index of the payload whose code created the timer.        *)
(***************************************************************************)
EXTENDS Integers, Sequences, FiniteSets, TLC

\* ------------------------------------------------------------------------
\* Bounds of the model
\* ------------------------------------------------------------------------
NumPlayers == 2
MaxRequests == 3
MaxNow == 10000
TickPlayers == 3
SprintHorizon == 5000
MaxMoves == 2
MaxChats == 2

\* Amounts of time (ms) by which the clock moves: the period of the
\* countdown, and the delay of the teardown.
TimeSteps == {1000, 10000}

\* ------------------------------------------------------------------------
\* CONSTANTS of the engine (scaled as described above)
\* ------------------------------------------------------------------------
BALL_RADIUS == 50
MAX_VELOCITY == 3000
SPRINT_MAX_VELOCITY == 5000
MOVE_FORCE == 75
SPRINT_FORCE == 120
FRICTION_NUM == 9
FRICTION_DEN == 10
GRAVITY == 981
PLATFORM_RADIUS == 1000
FALL_THRESHOLD == -500
SPAWN_HEIGHT == 100
TICK_RATE == 60
SYNC_RATE == 60
COUNTDOWN_DURATION == 3
MAX_STAMINA == 100000
STAMINA_REGEN == 15
STAMINA_DRAIN == 45
MIN_SPRINT_STAMINA == 10000
SPAWN_RADIUS == 800
HIT_CREDIT_WINDOW == 3000
TIMED_DURATION == 180
CLEANUP_DELAY == 10000
COUNTDOWN_PERIOD == 1000
MIN_PLAYERS == 2
CHAT_LIMIT == 100
MAX_PLAYERS == 12

\* setInterval(f, 1000 / RATE) fires no earlier than ceil(1000 / RATE) ms
\* after it was armed.
TickPeriod == (1000 + TICK_RATE - 1) \div TICK_RATE
SyncPeriod == (1000 + SYNC_RATE - 1) \div SYNC_RATE

\* ------------------------------------------------------------------------
\* Connections and the lobby roster
\* ------------------------------------------------------------------------
AllIds == <<"a", "b", "c", "d">>
Roster == SubSeq(AllIds, 1, NumPlayers)
Conns == {Roster[i] : i \in 1..NumPlayers}
HostId == Roster[1]

Null == 0
NoId == "none"
Undefined == -1

\* ------------------------------------------------------------------------
\* Arithmetic helpers
\* ------------------------------------------------------------------------
Abs(a) == IF a >= 0 THEN a ELSE -a

\* const x = v; Body(x): the value is computed once and then only named.
With(v, Body(_)) == CHOOSE r \in {Body(x) : x \in {v}} : TRUE

\* JavaScript division of integers, truncated toward zero (b > 0).
Div(a, b) == IF a >= 0 THEN a \div b ELSE -((-a) \div b)

\* a * b / c without leaving the 32-bit range for |a * b| beyond it.
MulDiv(a, b, c) == Div(a, c) * b + Div((a - Div(a, c) * c) * b, c)

RECURSIVE SqrtIter(_, _, _)
SqrtIter(n, lo, hi) ==
  IF lo >= hi THEN lo
  ELSE With((lo + hi + 1) \div 2, LAMBDA mid :
         IF mid * mid <= n THEN SqrtIter(n, mid, hi)
         ELSE SqrtIter(n, lo, mid - 1))

\* Math.sqrt, rounded down.
ISqrt(n) == With(n, LAMBDA m : SqrtIter(m, 0, 46340))

\* Math.sqrt(x ** 2 + z ** 2); large arguments are scaled before squaring.
Hypot(x, z) ==
  IF Abs(x) <= 30000 /\ Abs(z) <= 30000
  THEN ISqrt(x * x + z * z)
  ELSE 1000 * ISqrt(Div(x, 1000) * Div(x, 1000) + Div(z, 1000) * Div(z, 1000))

\* Math.sqrt(x ** 2 + z ** 2) > r, decided exactly.
BeyondRadius(x, z, r) ==
  \/ Abs(x) > r
  \/ Abs(z) > r
  \/ x * x + z * z > r * r

\* Math.cos(angle) * SPAWN_RADIUS and Math.sin(angle) * SPAWN_RADIUS for
\* angle = (index / n) * 2 * PI, index counted from 0, rounded to 1/100.
SpawnX(index, n) ==
  CASE n = 1 -> 800
    [] n = 2 -> IF index = 0 THEN 800 ELSE -800
    [] n = 3 -> IF index = 0 THEN 800 ELSE -400
    [] n = 4 -> CASE index = 0 -> 800 [] index = 1 -> 0
                  [] index = 2 -> -800 [] OTHER -> 0
    [] OTHER -> 0

SpawnZ(index, n) ==
  CASE n = 1 -> 0
    [] n = 2 -> 0
    [] n = 3 -> CASE index = 0 -> 0 [] index = 1 -> 693 [] OTHER -> -693
    [] n = 4 -> CASE index = 0 -> 0 [] index = 1 -> 800
                  [] index = 2 -> 0 [] OTHER -> -800
    [] OTHER -> 0

\* ------------------------------------------------------------------------
\* State
\* ------------------------------------------------------------------------
VARIABLES
  now,          \* Date.now()
  lobby,        \* the room's Lobby object (lobbies map of the server)
  activeGames,  \* the room's slot of the activeGames map
  payloads,     \* every BumperBallsGameData object created so far
  timers,       \* the timers created for each payload
  nextEid,      \* identity of the next registry entry object
  out,          \* messages emitted by the last handler or callback
  hist,         \* per payload: the bumper:game-end messages emitted for it
                \* so far, the payload it replaced in a restart, and how
                \* often a countdown and the two loops were started for it
                \* (and, where a ball's stamina is followed, its lowest
                \* value)
  last,         \* the request or timer callback handled by the last step
  requests      \* the number of requests that can still be received

vars ==
  <<now, lobby, activeGames, payloads, timers, nextEid, out, hist, last,
    requests>>

ZeroInput == [x |-> 0, z |-> 0, sprint |-> FALSE]

\* Movement inputs a client sends.
MoveInputs == {[x |-> 1, z |-> 0, sprint |-> TRUE]}

GameModes == {"classic", "timed"}

NoEntry ==
  [present |-> FALSE, eid |-> Null, gameData |-> Null, gameLoop |-> Null,
   syncLoop |-> Null, countdownInterval |-> Null, cleanupTimeout |-> Null]

TimerKinds == {"countdown", "gameLoop", "syncLoop", "cleanup"}

\* A timer that is not armed; due is the earliest time of its next firing.
Idle == [armed |-> FALSE, due |-> 0]

\* setInterval / setTimeout at time t with the given delay
Armed(t, delay) == [armed |-> TRUE, due |-> t + delay]

\* The timers of one payload, and the count variable of its countdown.
NoTimers ==
  [countdown |-> Idle, gameLoop |-> Idle, syncLoop |-> Idle, cleanup |-> Idle,
   count |-> 0]

\* Mutant of NewPlayers: the spawn angle ignores the player's index.
NewPlayersSameAngle(lobbyPlayers) ==
  [i \in 1..Len(lobbyPlayers) |->
    [socketId |-> lobbyPlayers[i].socketId,
     position |-> [x |-> SpawnX(0, Len(lobbyPlayers)),
                   y |-> SPAWN_HEIGHT,
                   z |-> SpawnZ(0, Len(lobbyPlayers))],
     velocity |-> [x |-> 0, y |-> 0, z |-> 0],
     acceleration |-> [x |-> 0, y |-> 0, z |-> 0],
     nan |-> FALSE,
     isEliminated |-> FALSE,
     eliminatedAt |-> Undefined,
     stamina |-> MAX_STAMINA,
     isSprinting |-> FALSE,
     eliminations |-> 0,
     survivalTime |-> 0,
     lastInput |-> ZeroInput,
     lastHitBy |-> NoId,
     lastHitTime |-> Undefined]]

\* The player balls built by lobby.players.map(...) at game start/restart.
NewPlayers(lobbyPlayers) ==
  [i \in 1..Len(lobbyPlayers) |->
    [socketId |-> lobbyPlayers[i].socketId,
     position |-> [x |-> SpawnX(i - 1, Len(lobbyPlayers)),
                   y |-> SPAWN_HEIGHT,
                   z |-> SpawnZ(i - 1, Len(lobbyPlayers))],
     velocity |-> [x |-> 0, y |-> 0, z |-> 0],
     acceleration |-> [x |-> 0, y |-> 0, z |-> 0],
     nan |-> FALSE,
     isEliminated |-> FALSE,
     eliminatedAt |-> Undefined,
     stamina |-> MAX_STAMINA,
     isSprinting |-> FALSE,
     eliminations |-> 0,
     survivalTime |-> 0,
     lastInput |-> ZeroInput,
     lastHitBy |-> NoId,
     lastHitTime |-> Undefined]]

\* lobby.settings?.gameMode || 'classic'
LobbyGameMode(lb) == IF lb.gameMode = "unset" THEN "classic" ELSE lb.gameMode

\* The gameData object literal of game start and of restart.
NewGameData(lb, t) ==
  [status |-> "countdown",
   countdownValue |-> COUNTDOWN_DURATION,
   startTime |-> t,
   gameMode |-> LobbyGameMode(lb),
   players |-> NewPlayers(lb.players),
   alivePlayers |-> [i \in 1..Len(lb.players) |-> lb.players[i].socketId],
   eliminationOrder |-> <<>>,
   winnerId |-> NoId,
   lastTickTime |-> t]

\* A chat message as far as the history goes (its id and timestamp are left
\* out).
SystemMessage(message) == [playerId |-> "system", message |-> message]

\* lobby.messages once the host has created the room and the other players
\* have joined it.
RoomLog(n) ==
  [k \in 1..n |-> SystemMessage(IF k = 1 THEN "created the room"
                                ELSE "joined the room")]

\* The lobby object once the room's players are in it.
BootLobby ==
  [hostId |-> HostId,
   players |-> [i \in 1..NumPlayers |-> [socketId |-> Roster[i], score |-> 0]],
   state |-> "LOBBY_WAITING",
   gameData |-> Null,
   gameMode |-> "unset",
   messages |-> RoomLog(NumPlayers)]

\* The room but for its lobby object.
BootRest ==
  /\ now = 0
  /\ activeGames = NoEntry
  /\ payloads = <<>>
  /\ timers = <<>>
  /\ nextEid = 1
  /\ out = <<>>
  /\ hist = <<>>
  /\ last = [op |-> "init", conn |-> NoId, pid |-> Null]

Boot ==
  /\ lobby = BootLobby
  /\ BootRest

Init ==
  /\ Boot
  /\ requests = MaxRequests

\* The requests of a host who starts a game, ends it, starts the next one,
\* ends it and restarts, each at a time of their choice.
DeepScript ==
  <<"game:start", "game:end", "game:start", "game:end", "bumper:restart">>

InitDeep ==
  /\ Boot
  /\ requests = Len(DeepScript)

\* ------------------------------------------------------------------------
\* Physics (one ball, one tick of dt milliseconds)
\* ------------------------------------------------------------------------

\* applyPlayerInput: acceleration from lastInput, by the current sprint flag.
applyPlayerInput(p) ==
  LET force == IF p.isSprinting THEN SPRINT_FORCE ELSE MOVE_FORCE
  IN  [p EXCEPT !.acceleration.x = p.lastInput.x * force,
                !.acceleration.z = p.lastInput.z * force]

\* Mutant of updateStamina: the result is neither floored nor capped.
updateStaminaUnclamped(p, dt) ==
  LET moving == p.lastInput.x # 0 \/ p.lastInput.z # 0
      p1 == IF p.isSprinting /\ moving
            THEN [p EXCEPT !.stamina = p.stamina - STAMINA_DRAIN * dt]
            ELSE [p EXCEPT !.stamina = p.stamina + STAMINA_REGEN * dt]
  IN  [p1 EXCEPT !.isSprinting =
         p1.lastInput.sprint /\ p1.stamina >= MIN_SPRINT_STAMINA]

\* Mutant of updateStamina: the sprint flag follows the input without the
\* MIN_SPRINT_STAMINA threshold.
updateStaminaNoThreshold(p, dt) ==
  LET moving == p.lastInput.x # 0 \/ p.lastInput.z # 0
      drained == p.stamina - STAMINA_DRAIN * dt
      regen == p.stamina + STAMINA_REGEN * dt
      p1 == IF p.isSprinting /\ moving
            THEN IF drained < 0
                 THEN [p EXCEPT !.stamina = 0, !.isSprinting = FALSE]
                 ELSE [p EXCEPT !.stamina = drained]
            ELSE IF regen > MAX_STAMINA
                 THEN [p EXCEPT !.stamina = MAX_STAMINA]
                 ELSE [p EXCEPT !.stamina = regen]
  IN  [p1 EXCEPT !.isSprinting = p1.lastInput.sprint]

\* updateStamina: drain while sprinting and moving, else regenerate; then
\* the sprint flag for the next evaluation.
updateStamina(p, dt) ==
  LET moving == p.lastInput.x # 0 \/ p.lastInput.z # 0
      drained == p.stamina - STAMINA_DRAIN * dt
      regen == p.stamina + STAMINA_REGEN * dt
      p1 == IF p.isSprinting /\ moving
            THEN IF drained < 0
                 THEN [p EXCEPT !.stamina = 0, !.isSprinting = FALSE]
                 ELSE [p EXCEPT !.stamina = drained]
            ELSE IF regen > MAX_STAMINA
                 THEN [p EXCEPT !.stamina = MAX_STAMINA]
                 ELSE [p EXCEPT !.stamina = regen]
  IN  [p1 EXCEPT !.isSprinting =
         p1.lastInput.sprint /\ p1.stamina >= MIN_SPRINT_STAMINA]

\* (v / speed) * maxVel
Rescale(v, speed, maxVel) ==
  IF speed <= 40000 THEN MulDiv(v, maxVel, speed)
  ELSE MulDiv(Div(v, 1000), maxVel, Div(speed, 1000))

\* The body of updatePhysics' loop for one non-eliminated ball.
stepPlayer(p, dt) ==
  With(updateStamina(applyPlayerInput([p EXCEPT !.survivalTime = @ + dt]), dt),
       LAMBDA p3 :
  With(Div((p3.velocity.x + Div(p3.acceleration.x * dt, 10)) * FRICTION_NUM,
           FRICTION_DEN), LAMBDA vx1 :
  With(Div((p3.velocity.z + Div(p3.acceleration.z * dt, 10)) * FRICTION_NUM,
           FRICTION_DEN), LAMBDA vz1 :
  With(Hypot(vx1, vz1), LAMBDA speed :
  LET ay == -GRAVITY
      vy1 == p3.velocity.y + Div(ay * dt, 1000)
      maxVel == IF p3.isSprinting THEN SPRINT_MAX_VELOCITY ELSE MAX_VELOCITY
      over == ~p3.nan /\ speed > maxVel
      vx2 == IF over THEN Rescale(vx1, speed, maxVel) ELSE vx1
      vz2 == IF over THEN Rescale(vz1, speed, maxVel) ELSE vz1
      px == IF p3.nan THEN p3.position.x ELSE p3.position.x + MulDiv(vx2, dt, 1000)
      pz == IF p3.nan THEN p3.position.z ELSE p3.position.z + MulDiv(vz2, dt, 1000)
      py == p3.position.y + MulDiv(vy1, dt, 1000)
      isOnPlatform == ~p3.nan /\ ~BeyondRadius(px, pz, PLATFORM_RADIUS)
      snap == isOnPlatform /\ py < SPAWN_HEIGHT
  IN  [p3 EXCEPT
        !.velocity = [x |-> IF p3.nan THEN p3.velocity.x ELSE vx2,
                      y |-> IF snap THEN 0 ELSE vy1,
                      z |-> IF p3.nan THEN p3.velocity.z ELSE vz2],
        !.position = [x |-> px,
                      y |-> IF snap THEN SPAWN_HEIGHT ELSE py,
                      z |-> pz],
        !.acceleration = [x |-> 0, y |-> ay, z |-> 0]]))))

\* distance < BALL_RADIUS * 2 for the centers of two balls (false on NaN).
Overlapping(p1, p2) ==
  LET dx == p2.position.x - p1.position.x
      dz == p2.position.z - p1.position.z
  IN  /\ ~p1.nan /\ ~p2.nan
      /\ Abs(dx) < 2 * BALL_RADIUS /\ Abs(dz) < 2 * BALL_RADIUS
      /\ dx * dx + dz * dz < (2 * BALL_RADIUS) * (2 * BALL_RADIUS)

\* Math.sqrt(v.x ** 2 + v.z ** 2) of a velocity
Speed(p) == Hypot(p.velocity.x, p.velocity.z)

\* The impulse component added to a velocity: impulse * n, and once more
\* scaled to minImpulse when its magnitude is below minImpulse.
MIN_IMPULSE == 2400

Knock(impulse, nx, nz) ==
  LET ix == MulDiv(impulse, nx, 1000)
      iz == MulDiv(impulse, nz, 1000)
      mag == Hypot(ix, iz)
      div == IF mag = 0 THEN 1 ELSE mag
  IN  IF mag < MIN_IMPULSE
      THEN [x |-> ix + MulDiv(ix, MIN_IMPULSE, div),
            z |-> iz + MulDiv(iz, MIN_IMPULSE, div)]
      ELSE [x |-> ix, z |-> iz]

\* Mutant of resolveCollision: the first ball alone is moved out of the
\* overlap, and the balls keep their velocities.
resolveCollisionPushFirst(p1, p2, t) ==
  With(p2.position.x - p1.position.x, LAMBDA dx :
  With(p2.position.z - p1.position.z, LAMBDA dz :
  With(ISqrt((dx * dx + dz * dz) * 10000), LAMBDA dist :
    IF dist = 0
    THEN <<[p1 EXCEPT !.nan = TRUE], [p2 EXCEPT !.nan = TRUE]>>
    ELSE LET overlap == 2 * BALL_RADIUS * 100 - dist
             sx == Div(Div(dx * 100000, dist) * overlap, 100000)
             sz == Div(Div(dz * 100000, dist) * overlap, 100000)
         IN  <<[p1 EXCEPT !.position.x = @ - sx, !.position.z = @ - sz,
                          !.lastHitBy = p2.socketId, !.lastHitTime = t],
               p2>>)))

\* resolveCollision(p1, p2, dx, dz, distance); the result is the pair of
\* updated balls.  The normal is kept in 1/1000, the distance in 1/10000.
resolveCollision(p1, p2, t) ==
  With(p2.position.x - p1.position.x, LAMBDA dx :
  With(p2.position.z - p1.position.z, LAMBDA dz :
  With(ISqrt((dx * dx + dz * dz) * 10000), LAMBDA dist :
  With(Speed(p1), LAMBDA speed1 :
  With(Speed(p2), LAMBDA speed2 :
  LET hit1 == IF speed1 > speed2 THEN p1
              ELSE [p1 EXCEPT !.lastHitBy = p2.socketId, !.lastHitTime = t]
      hit2 == IF speed1 > speed2
              THEN [p2 EXCEPT !.lastHitBy = p1.socketId, !.lastHitTime = t]
              ELSE p2
  IN  IF dist = 0
      THEN \* 0 / 0: the normal, both positions and both velocities are NaN
           <<[hit1 EXCEPT !.nan = TRUE], [hit2 EXCEPT !.nan = TRUE]>>
      ELSE
        With(Div(dx * 100000, dist), LAMBDA nx :
        With(Div(dz * 100000, dist), LAMBDA nz :
        LET overlap == 2 * BALL_RADIUS * 100 - dist
            sx == Div(nx * overlap, 200000)
            sz == Div(nz * overlap, 200000)
            q1 == [p1 EXCEPT !.position.x = @ - sx, !.position.z = @ - sz]
            q2 == [p2 EXCEPT !.position.x = @ + sx, !.position.z = @ + sz]
            mass1 == IF p1.isSprinting THEN 3 ELSE 2
            mass2 == IF p2.isSprinting THEN 3 ELSE 2
            relVelX == p2.velocity.x - p1.velocity.x
            relVelZ == p2.velocity.z - p1.velocity.z
            velAlongNormal == MulDiv(relVelX, nx, 1000) + MulDiv(relVelZ, nz, 1000)
            j == Div(-23 * velAlongNormal, mass1 + mass2)
            speedFactor1 == 1000 + 3 * speed1
            speedFactor2 == 1000 + 3 * speed2
            impulse1 == MulDiv(Div(j * mass2, 2), speedFactor2, 1000)
            impulse2 == MulDiv(Div(j * mass1, 2), speedFactor1, 1000)
            k1 == Knock(impulse1, nx, nz)
            k2 == Knock(impulse2, nx, nz)
        IN  IF velAlongNormal > 0
            THEN <<q1, q2>>
            ELSE <<[q1 EXCEPT !.velocity.x = @ - k1.x, !.velocity.z = @ - k1.z,
                              !.lastHitBy = hit1.lastHitBy,
                              !.lastHitTime = hit1.lastHitTime],
                   [q2 EXCEPT !.velocity.x = @ + k2.x, !.velocity.z = @ + k2.z,
                              !.lastHitBy = hit2.lastHitBy,
                              !.lastHitTime = hit2.lastHitTime]>>)))))))

\* The inner loop of checkCollisions: ball at index i against j, j+1, ...
RECURSIVE collideFrom(_, _, _, _)
collideFrom(ps, i, j, t) ==
  IF j > Len(ps) THEN ps
  ELSE IF ps[i].isEliminated \/ ps[j].isEliminated \/ ~Overlapping(ps[i], ps[j])
       THEN collideFrom(ps, i, j + 1, t)
       ELSE With(resolveCollision(ps[i], ps[j], t), LAMBDA r :
            With([ps EXCEPT ![i] = r[1], ![j] = r[2]], LAMBDA ps1 :
              collideFrom(ps1, i, j + 1, t)))

\* checkCollisions: every pair i < j of non-eliminated balls, in order.
RECURSIVE checkCollisions(_, _, _)
checkCollisions(ps, i, t) ==
  IF i >= Len(ps) THEN ps
  ELSE With(collideFrom(ps, i, i + 1, t), LAMBDA ps1 :
         checkCollisions(ps1, i + 1, t))

\* updatePhysics(gameData, deltaTime)
updatePhysics(gd, dt, t) ==
  With([i \in 1..Len(gd.players) |->
          IF gd.players[i].isEliminated THEN gd.players[i]
          ELSE stepPlayer(gd.players[i], dt)], LAMBDA stepped :
    [gd EXCEPT !.players = checkCollisions(stepped, 1, t)])

\* ------------------------------------------------------------------------
\* The engine's functions act on a world: the mutable objects and the
\* messages emitted so far by the running handler.
\* ------------------------------------------------------------------------
World ==
  [lobby |-> lobby, activeGames |-> activeGames, payloads |-> payloads,
   timers |-> timers, out |-> <<>>, hist |-> hist]

\* sanitizeGameData: the snapshot sent to clients.
sanitizeGameData(gd) ==
  [gd EXCEPT !.players =
    [i \in 1..Len(gd.players) |->
      [socketId |-> gd.players[i].socketId,
       position |-> gd.players[i].position,
       velocity |-> gd.players[i].velocity,
       nan |-> gd.players[i].nan,
       isEliminated |-> gd.players[i].isEliminated,
       stamina |-> gd.players[i].stamina,
       isSprinting |-> gd.players[i].isSprinting,
       eliminations |-> gd.players[i].eliminations,
       survivalTime |-> gd.players[i].survivalTime]]]

\* io.to(room).emit(event, data) and socket.emit(event, data)
Emit(W, event, to, pid, data) ==
  [W EXCEPT !.out = Append(@, [event |-> event, to |-> to, pid |-> pid,
                               data |-> data])]

\* sendSystemMessage(lobby, message) of the server
sendSystemMessage(W, message) ==
  Emit([W EXCEPT !.lobby.messages = Append(@, SystemMessage(message))],
       "chat:message", "room", Null, SystemMessage(message))

\* clearInterval / clearTimeout of a handle (a no-op on null and on a timer
\* that is no longer armed).
clearTimer(tm, kind, handle) ==
  IF handle = Null THEN tm ELSE [tm EXCEPT ![handle][kind] = Idle]

\* players.find(p => p.socketId === id): its index, 0 when there is none.
IndexOf(seq, id) ==
  IF \E i \in 1..Len(seq) : seq[i].socketId = id
  THEN CHOOSE i \in 1..Len(seq) :
         /\ seq[i].socketId = id
         /\ \A k \in 1..(i - 1) : seq[k].socketId # id
  ELSE 0

\* eliminationOrder.indexOf(id), counted from 0; -1 when absent.
OrderIndexOf(order, id) ==
  IF \E i \in 1..Len(order) : order[i] = id
  THEN (CHOOSE i \in 1..Len(order) :
          order[i] = id /\ \A k \in 1..(i - 1) : order[k] # id) - 1
  ELSE -1

\* Mutant of Leader: the last ball among those with the most eliminations.
LeaderLast(players) ==
  CHOOSE i \in 1..Len(players) :
    /\ \A k \in 1..Len(players) : players[k].eliminations <= players[i].eliminations
    /\ \A k \in (i + 1)..Len(players) :
         players[k].eliminations < players[i].eliminations

\* [...players].sort((a, b) => b.eliminations - a.eliminations)[0]: the
\* first ball among those with the most eliminations (the sort is stable).
Leader(players) ==
  CHOOSE i \in 1..Len(players) :
    /\ \A k \in 1..Len(players) : players[k].eliminations <= players[i].eliminations
    /\ \A k \in 1..(i - 1) : players[k].eliminations < players[i].eliminations

PlaceScore(place) ==
  CASE place = 1 -> 100
    [] place = 2 -> 75
    [] place = 3 -> 50
    [] place = 4 -> 25
    [] OTHER -> 10

\* Mutant of FinalScores: the places of the eliminated players follow the
\* order of elimination, the first one eliminated is placed second.
FinalScoresFirstOutSecond(gd) ==
  [i \in 1..Len(gd.players) |->
    LET player == gd.players[i]
        place == IF player.isEliminated
                 THEN 2 + OrderIndexOf(gd.eliminationOrder, player.socketId)
                 ELSE 1
    IN  [socketId |-> player.socketId, place |-> place,
         score |-> PlaceScore(place),
         eliminations |-> player.eliminations,
         survivalTime |-> player.survivalTime]]

\* The finalScores table of endGame.
FinalScores(gd) ==
  [i \in 1..Len(gd.players) |->
    LET player == gd.players[i]
        place == IF player.isEliminated
                 THEN Len(gd.players) - OrderIndexOf(gd.eliminationOrder, player.socketId)
                 ELSE 1
    IN  [socketId |-> player.socketId, place |-> place,
         score |-> PlaceScore(place),
         eliminations |-> player.eliminations,
         survivalTime |-> player.survivalTime]]

\* Mutant of scheduleCleanup: a payload that already has ended before does
\* not get a new teardown timer.
scheduleCleanupOnce(tm, pid, t) ==
  IF hist[pid].gameEnds > 0 THEN tm
  ELSE [tm EXCEPT ![pid].cleanup = Armed(t, CLEANUP_DELAY)]

\* setTimeout(() => activeGames.delete(roomCode), 10000) of endGame
scheduleCleanup(tm, pid, t) ==
  [tm EXCEPT ![pid].cleanup = Armed(t, CLEANUP_DELAY)]

\* endGame(gameData, winnerId, roomCode, io) at time t.
endGame(W, pid, winnerId, t) ==
  LET gd == [W.payloads[pid] EXCEPT !.status = "ended", !.winnerId = winnerId]
      game == W.activeGames
      tm1 == IF game.present
             THEN clearTimer(clearTimer(clearTimer(W.timers,
                    "gameLoop", game.gameLoop),
                    "syncLoop", game.syncLoop),
                    "cleanup", game.cleanupTimeout)
             ELSE W.timers
      w == IF game.present THEN IndexOf(W.lobby.players, winnerId) ELSE 0
      lobby1 == IF w # 0
                THEN [W.lobby EXCEPT !.players[w].score = @ + 1]
                ELSE W.lobby
      W1 == [W EXCEPT !.payloads[pid] = gd, !.lobby = lobby1]
      W2 == IF w # 0
            THEN Emit(W1, "lobby:player-list-update", "room", pid, lobby1.players)
            ELSE W1
      W3 == Emit(W2, "bumper:game-end", "room", pid,
                 [winnerId |-> winnerId,
                  finalScores |-> FinalScores(gd),
                  gameData |-> sanitizeGameData(gd)])
  IN  [W3 EXCEPT
        !.timers = scheduleCleanup(tm1, pid, t),
        !.activeGames = IF game.present
                        THEN [game EXCEPT !.cleanupTimeout = pid]
                        ELSE game,
        !.hist[pid].gameEnds = @ + 1]

\* Mutant of eliminatePlayer: the victim stays in alivePlayers.
eliminatePlayerStaysAlive(W, pid, i, t) ==
  LET gd == W.payloads[pid]
      player == gd.players[i]
      credited == /\ player.lastHitBy # NoId
                  /\ player.lastHitTime # Undefined /\ player.lastHitTime # 0
                  /\ t - player.lastHitTime < HIT_CREDIT_WINDOW
      a == IF credited THEN IndexOf(gd.players, player.lastHitBy) ELSE 0
      marked == [gd.players EXCEPT ![i].isEliminated = TRUE,
                                   ![i].eliminatedAt = t]
      players1 == IF a # 0 /\ ~marked[a].isEliminated
                  THEN [marked EXCEPT ![a].eliminations = @ + 1]
                  ELSE marked
      gd1 == [gd EXCEPT !.players = players1,
                        !.eliminationOrder = Append(@, player.socketId)]
  IN  Emit([W EXCEPT !.payloads[pid] = gd1], "bumper:player-eliminated", "room",
           pid, [socketId |-> player.socketId,
                 remainingPlayers |-> Len(gd.alivePlayers)])

\* Mutant of eliminatePlayer: the victim is put at the head of
\* eliminationOrder.
eliminatePlayerPrepends(W, pid, i, t) ==
  LET gd == W.payloads[pid]
      player == gd.players[i]
      credited == /\ player.lastHitBy # NoId
                  /\ player.lastHitTime # Undefined /\ player.lastHitTime # 0
                  /\ t - player.lastHitTime < HIT_CREDIT_WINDOW
      a == IF credited THEN IndexOf(gd.players, player.lastHitBy) ELSE 0
      marked == [gd.players EXCEPT ![i].isEliminated = TRUE,
                                   ![i].eliminatedAt = t]
      players1 == IF a # 0 /\ ~marked[a].isEliminated
                  THEN [marked EXCEPT ![a].eliminations = @ + 1]
                  ELSE marked
      alive1 == SelectSeq(gd.alivePlayers, LAMBDA id : id # player.socketId)
      gd1 == [gd EXCEPT !.players = players1,
                        !.eliminationOrder = <<player.socketId>> \o @,
                        !.alivePlayers = alive1]
  IN  Emit([W EXCEPT !.payloads[pid] = gd1], "bumper:player-eliminated", "room",
           pid, [socketId |-> player.socketId,
                 remainingPlayers |-> Len(alive1)])

\* Mutant of eliminatePlayer: a hit is credited however long ago it was.
eliminatePlayerNoWindow(W, pid, i, t) ==
  LET gd == W.payloads[pid]
      player == gd.players[i]
      credited == /\ player.lastHitBy # NoId
                  /\ player.lastHitTime # Undefined /\ player.lastHitTime # 0
      a == IF credited THEN IndexOf(gd.players, player.lastHitBy) ELSE 0
      marked == [gd.players EXCEPT ![i].isEliminated = TRUE,
                                   ![i].eliminatedAt = t]
      players1 == IF a # 0 /\ ~marked[a].isEliminated
                  THEN [marked EXCEPT ![a].eliminations = @ + 1]
                  ELSE marked
      alive1 == SelectSeq(gd.alivePlayers, LAMBDA id : id # player.socketId)
      gd1 == [gd EXCEPT !.players = players1,
                        !.eliminationOrder = Append(@, player.socketId),
                        !.alivePlayers = alive1]
  IN  Emit([W EXCEPT !.payloads[pid] = gd1], "bumper:player-eliminated", "room",
           pid, [socketId |-> player.socketId,
                 remainingPlayers |-> Len(alive1)])

\* Mutant of eliminatePlayer: an elimination that is credited to nobody
\* else is credited to the victim.
eliminatePlayerCreditsVictim(W, pid, i, t) ==
  LET gd == W.payloads[pid]
      player == gd.players[i]
      credited == /\ player.lastHitBy # NoId
                  /\ player.lastHitTime # Undefined /\ player.lastHitTime # 0
                  /\ t - player.lastHitTime < HIT_CREDIT_WINDOW
      a == IF credited THEN IndexOf(gd.players, player.lastHitBy) ELSE 0
      marked == [gd.players EXCEPT ![i].isEliminated = TRUE,
                                   ![i].eliminatedAt = t]
      players1 == IF a # 0 /\ ~marked[a].isEliminated
                  THEN [marked EXCEPT ![a].eliminations = @ + 1]
                  ELSE [marked EXCEPT ![i].eliminations = @ + 1]
      alive1 == SelectSeq(gd.alivePlayers, LAMBDA id : id # player.socketId)
      gd1 == [gd EXCEPT !.players = players1,
                        !.eliminationOrder = Append(@, player.socketId),
                        !.alivePlayers = alive1]
  IN  Emit([W EXCEPT !.payloads[pid] = gd1], "bumper:player-eliminated", "room",
           pid, [socketId |-> player.socketId,
                 remainingPlayers |-> Len(alive1)])

\* eliminatePlayer(player, gameData, roomCode, io) for the ball at index i.
eliminatePlayer(W, pid, i, t) ==
  LET gd == W.payloads[pid]
      player == gd.players[i]
      credited == /\ player.lastHitBy # NoId
                  /\ player.lastHitTime # Undefined /\ player.lastHitTime # 0
                  /\ t - player.lastHitTime < HIT_CREDIT_WINDOW
      a == IF credited THEN IndexOf(gd.players, player.lastHitBy) ELSE 0
      \* the victim is marked before the attacker is looked up
      marked == [gd.players EXCEPT ![i].isEliminated = TRUE,
                                   ![i].eliminatedAt = t]
      players1 == IF a # 0 /\ ~marked[a].isEliminated
                  THEN [marked EXCEPT ![a].eliminations = @ + 1]
                  ELSE marked
      alive1 == SelectSeq(gd.alivePlayers, LAMBDA id : id # player.socketId)
      gd1 == [gd EXCEPT !.players = players1,
                        !.eliminationOrder = Append(@, player.socketId),
                        !.alivePlayers = alive1]
  IN  Emit([W EXCEPT !.payloads[pid] = gd1], "bumper:player-eliminated", "room",
           pid, [socketId |-> player.socketId,
                 remainingPlayers |-> Len(alive1)])

\* Mutant of checkEliminations: the distance from the center is not
\* looked at.
RECURSIVE checkEliminationsFallOnly(_, _, _, _)
checkEliminationsFallOnly(W, pid, i, t) ==
  LET ps == W.payloads[pid].players
  IN  IF i > Len(ps) THEN W
      ELSE IF ps[i].isEliminated THEN checkEliminationsFallOnly(W, pid, i + 1, t)
      ELSE IF ps[i].position.y < FALL_THRESHOLD
           THEN With(eliminatePlayer(W, pid, i, t), LAMBDA W1 :
                  checkEliminationsFallOnly(W1, pid, i + 1, t))
      ELSE checkEliminationsFallOnly(W, pid, i + 1, t)

\* Mutant of checkEliminations: the fall threshold is looked at also after
\* the ball was eliminated for its distance.
RECURSIVE checkEliminationsNoContinue(_, _, _, _)
checkEliminationsNoContinue(W, pid, i, t) ==
  LET ps == W.payloads[pid].players
      far == ~ps[i].nan
             /\ BeyondRadius(ps[i].position.x, ps[i].position.z, PLATFORM_RADIUS)
      low == ps[i].position.y < FALL_THRESHOLD
  IN  IF i > Len(ps) THEN W
      ELSE IF ps[i].isEliminated THEN checkEliminationsNoContinue(W, pid, i + 1, t)
      ELSE With(IF far THEN eliminatePlayer(W, pid, i, t) ELSE W, LAMBDA W1 :
           With(IF low THEN eliminatePlayer(W1, pid, i, t) ELSE W1, LAMBDA W2 :
             checkEliminationsNoContinue(W2, pid, i + 1, t)))

\* checkEliminations, from the ball at index i on.
RECURSIVE checkEliminations(_, _, _, _)
checkEliminations(W, pid, i, t) ==
  LET ps == W.payloads[pid].players
  IN  IF i > Len(ps) THEN W
      ELSE IF ps[i].isEliminated THEN checkEliminations(W, pid, i + 1, t)
      ELSE IF ~ps[i].nan
              /\ BeyondRadius(ps[i].position.x, ps[i].position.z, PLATFORM_RADIUS)
           THEN With(eliminatePlayer(W, pid, i, t), LAMBDA W1 :
                  checkEliminations(W1, pid, i + 1, t))
      ELSE IF ps[i].position.y < FALL_THRESHOLD
           THEN With(eliminatePlayer(W, pid, i, t), LAMBDA W1 :
                  checkEliminations(W1, pid, i + 1, t))
      ELSE checkEliminations(W, pid, i + 1, t)

\* Mutant of checkVictoryCondition: a sole survivor loses to the ball that
\* was eliminated last.
checkVictoryConditionLastOut(W, pid, t) ==
  IF W.payloads[pid].status # "playing" THEN W
  ELSE
    With(IF Len(W.payloads[pid].alivePlayers) = 1
         THEN endGame(W, pid,
                      W.payloads[pid].eliminationOrder[
                        Len(W.payloads[pid].eliminationOrder)], t)
         ELSE W, LAMBDA W1 :
    With(IF Len(W1.payloads[pid].alivePlayers) = 0
         THEN endGame(W1, pid,
                      W1.payloads[pid].eliminationOrder[
                        Len(W1.payloads[pid].eliminationOrder)], t)
         ELSE W1, LAMBDA W2 :
    LET gd2 == W2.payloads[pid]
    IN  IF gd2.gameMode = "timed" /\ t - gd2.startTime >= TIMED_DURATION * 1000
        THEN endGame(W2, pid, gd2.players[Leader(gd2.players)].socketId, t)
        ELSE W2))

\* checkVictoryCondition: three checks in sequence, each on the current
\* alivePlayers.
checkVictoryCondition(W, pid, t) ==
  IF W.payloads[pid].status # "playing" THEN W
  ELSE
    With(IF Len(W.payloads[pid].alivePlayers) = 1
         THEN endGame(W, pid, W.payloads[pid].alivePlayers[1], t)
         ELSE W, LAMBDA W1 :
    With(IF Len(W1.payloads[pid].alivePlayers) = 0
         THEN endGame(W1, pid,
                      W1.payloads[pid].eliminationOrder[
                        Len(W1.payloads[pid].eliminationOrder)], t)
         ELSE W1, LAMBDA W2 :
    LET gd2 == W2.payloads[pid]
    IN  IF gd2.gameMode = "timed" /\ t - gd2.startTime >= TIMED_DURATION * 1000
        THEN endGame(W2, pid, gd2.players[Leader(gd2.players)].socketId, t)
        ELSE W2))

\* startCountdown(roomCode, gameData, io)
startCountdown(W, pid, t) ==
  IF ~W.activeGames.present THEN W
  ELSE [W EXCEPT !.timers[pid].countdown = Armed(t, COUNTDOWN_PERIOD),
                 !.timers[pid].count = COUNTDOWN_DURATION,
                 !.activeGames.countdownInterval = pid,
                 !.hist[pid].countdowns = @ + 1]

\* startGameLoop(roomCode, gameData, io)
startGameLoop(W, pid, t) ==
  LET W1 == [W EXCEPT !.payloads[pid].status = "playing",
                      !.payloads[pid].startTime = t,
                      !.payloads[pid].lastTickTime = t]
  IN  IF ~W1.activeGames.present THEN W1
      ELSE LET W2 == Emit(W1, "bumper:state-update", "room", pid,
                          sanitizeGameData(W1.payloads[pid]))
           IN  [W2 EXCEPT !.timers[pid].gameLoop = Armed(t, TickPeriod),
                          !.timers[pid].syncLoop = Armed(t, SyncPeriod),
                          !.activeGames.gameLoop = pid,
                          !.activeGames.syncLoop = pid,
                          !.hist[pid].loops = @ + 1]

\* The lobby object sent in game:started
LobbyView(lb, pid) ==
  [hostId |-> lb.hostId, players |-> lb.players, state |-> lb.state,
   gameData |-> pid]

NewHist(old) ==
  [gameEnds |-> 0, restartOf |-> old, countdowns |-> 0, loops |-> 0]

\* initializeBumperBallsGame(lobby, io): a new payload in a new registry
\* entry object.
initializeBumperBallsGame(W, eid, t) ==
  LET pid == Len(W.payloads) + 1
      gd == NewGameData(W.lobby, t)
      W1 == [W EXCEPT
              !.payloads = Append(@, gd),
              !.timers = Append(@, NoTimers),
              !.hist = Append(@, NewHist(Null)),
              !.lobby.gameData = pid,
              !.activeGames = [NoEntry EXCEPT !.present = TRUE, !.eid = eid,
                                              !.gameData = pid]]
      W2 == Emit(W1, "game:started", "room", pid, LobbyView(W1.lobby, pid))
  IN  startCountdown(W2, pid, t)

\* A request is received.
Receive ==
  /\ requests > 0
  /\ requests' = requests - 1
  /\ UNCHANGED now

\* A step installs the world a handler leaves behind.
Install(W) ==
  \E w \in {W} :
    /\ lobby' = w.lobby
    /\ activeGames' = w.activeGames
    /\ payloads' = w.payloads
    /\ timers' = w.timers
    /\ out' = w.out
    /\ hist' = w.hist

Error(W, c, message) == Emit(W, "error", c, Null, message)

\* ------------------------------------------------------------------------
\* Requests of the connections
\* ------------------------------------------------------------------------

\* socket.on('game:start') of the server
GameStart(c) ==
  /\ last' = [op |-> "game:start", conn |-> c, pid |-> Null]
  /\ Receive
  /\ IF lobby.hostId # c
     THEN Install(Error(World, c, "Only host can start the game")) /\ UNCHANGED nextEid
     ELSE IF Len(lobby.players) < MIN_PLAYERS
     THEN Install(Error(World, c, "Need more players")) /\ UNCHANGED nextEid
     ELSE /\ Install(sendSystemMessage(
                       initializeBumperBallsGame(
                         [World EXCEPT !.lobby.state = "PLAYING"], nextEid, now),
                       "Game starting!"))
          /\ nextEid' = nextEid + 1

\* socket.on('settings:update') of the server, setting gameMode
SettingsUpdate(c, mode) ==
  /\ last' = [op |-> "settings:update", conn |-> c, pid |-> Null]
  /\ Receive
  /\ UNCHANGED nextEid
  /\ IF lobby.hostId # c
     THEN Install(Error(World, c, "Only host can update settings"))
     ELSE Install(Emit([World EXCEPT !.lobby.gameMode = mode],
                       "lobby:settings-updated", "room", Null, mode))

\* Mutant of Move: the movement is added to the input received before.
MoveAccumulates(c, movement) ==
  /\ last' = [op |-> "bumper:move", conn |-> c, pid |-> activeGames.gameData]
  /\ Receive
  /\ UNCHANGED nextEid
  /\ IF ~activeGames.present THEN Install(World)
     ELSE LET pid == activeGames.gameData
              i == IndexOf(payloads[pid].players, c)
          IN  IF i = 0 \/ payloads[pid].players[i].isEliminated
              THEN Install(World)
              ELSE Install([World EXCEPT
                     !.payloads[pid].players[i].lastInput =
                        [x |-> @.x + movement.x, z |-> @.z + movement.z,
                         sprint |-> @.sprint \/ movement.sprint]])

\* Mutant of Move: a message for a room without a registry entry is
\* answered with an error.
MoveReportsMissing(c, movement) ==
  /\ last' = [op |-> "bumper:move", conn |-> c, pid |-> activeGames.gameData]
  /\ Receive
  /\ UNCHANGED nextEid
  /\ IF ~activeGames.present
     THEN Install(Emit(World, "error", c, Null, "Game not found"))
     ELSE LET pid == activeGames.gameData
              i == IndexOf(payloads[pid].players, c)
          IN  IF i = 0 \/ payloads[pid].players[i].isEliminated
              THEN Install(World)
              ELSE Install([World EXCEPT
                     !.payloads[pid].players[i].lastInput = movement])

\* Mutant of Move: the input of an eliminated player is stored too.
MoveAfterElimination(c, movement) ==
  /\ last' = [op |-> "bumper:move", conn |-> c, pid |-> activeGames.gameData]
  /\ Receive
  /\ UNCHANGED nextEid
  /\ IF ~activeGames.present THEN Install(World)
     ELSE LET pid == activeGames.gameData
              i == IndexOf(payloads[pid].players, c)
          IN  IF i = 0
              THEN Install(World)
              ELSE Install([World EXCEPT
                     !.payloads[pid].players[i].lastInput = movement])

\* Mutant of Move: the movement is added to the ball's velocity at once.
MovePushesBall(c, movement) ==
  /\ last' = [op |-> "bumper:move", conn |-> c, pid |-> activeGames.gameData]
  /\ Receive
  /\ UNCHANGED nextEid
  /\ IF ~activeGames.present THEN Install(World)
     ELSE LET pid == activeGames.gameData
              i == IndexOf(payloads[pid].players, c)
          IN  IF i = 0 \/ payloads[pid].players[i].isEliminated
              THEN Install(World)
              ELSE Install([World EXCEPT
                     !.payloads[pid].players[i].lastInput = movement,
                     !.payloads[pid].players[i].velocity.x = @ + movement.x,
                     !.payloads[pid].players[i].velocity.z = @ + movement.z])

\* socket.on('bumper:move')
Move(c, movement) ==
  /\ last' = [op |-> "bumper:move", conn |-> c, pid |-> activeGames.gameData]
  /\ Receive
  /\ UNCHANGED nextEid
  /\ IF ~activeGames.present THEN Install(World)
     ELSE LET pid == activeGames.gameData
              i == IndexOf(payloads[pid].players, c)
          IN  IF i = 0 \/ payloads[pid].players[i].isEliminated
              THEN Install(World)
              ELSE Install([World EXCEPT
                     !.payloads[pid].players[i].lastInput = movement])

\* socket.on('game:end') of the engine
bumperGameEnd(W, t) ==
  IF ~W.activeGames.present THEN W
  ELSE LET pid == W.activeGames.gameData
           ps == W.payloads[pid].players
       IN  endGame(W, pid, ps[Leader(ps)].socketId, t)

\* socket.on('game:end') of the server
serverGameEnd(W, c) ==
  IF W.lobby.hostId # c
  THEN Error(W, c, "Only host can end the game")
  ELSE LET lobby1 == [W.lobby EXCEPT !.state = "GAME_ENDED", !.gameData = Null]
       IN  sendSystemMessage(
             Emit([W EXCEPT !.lobby = lobby1], "game:ended", "room", Null,
                  LobbyView(lobby1, Null)),
             "Game ended!")

\* A game:end message: both listeners run, in the order they were added.
ManualEnd(c) ==
  /\ last' = [op |-> "game:end", conn |-> c, pid |-> activeGames.gameData]
  /\ Receive
  /\ UNCHANGED nextEid
  /\ Install(serverGameEnd(bumperGameEnd(World, now), c))

\* Mutant of restartRejection: the host check is missing.
restartRejectionNoHostCheck(c) ==
  IF ~activeGames.present THEN "Game not found" ELSE ""

\* The checks of bumper:restart: the error message sent to the requesting
\* socket, "" when the restart is accepted.
restartRejection(c) ==
  IF ~activeGames.present THEN "Game not found"
  ELSE IF lobby.hostId # c THEN "Only host can restart the game"
  ELSE ""

\* Mutant of Restart: the lobby's cached gameData is left pointing at the
\* payload that was replaced.
RestartKeepsLobbyCache(c) ==
  /\ last' = [op |-> "bumper:restart", conn |-> c, pid |-> activeGames.gameData]
  /\ Receive
  /\ UNCHANGED nextEid
  /\ IF restartRejection(c) # ""
     THEN Install(Error(World, c, restartRejection(c)))
     ELSE LET game == activeGames
              tm == clearTimer(clearTimer(clearTimer(clearTimer(timers,
                      "gameLoop", game.gameLoop),
                      "syncLoop", game.syncLoop),
                      "countdown", game.countdownInterval),
                      "cleanup", game.cleanupTimeout)
              pid == Len(payloads) + 1
              W1 == [World EXCEPT
                      !.timers = Append(tm, NoTimers),
                      !.payloads = Append(@, NewGameData(lobby, now)),
                      !.hist = Append(@, NewHist(game.gameData)),
                      !.activeGames = [game EXCEPT
                         !.gameLoop = Null, !.syncLoop = Null,
                         !.countdownInterval = Null, !.cleanupTimeout = Null,
                         !.gameData = pid]]
              W2 == Emit(W1, "game:started", "room", pid,
                         LobbyView(W1.lobby, pid))
          IN  Install(startCountdown(W2, pid, now))

\* socket.on('bumper:restart')
Restart(c) ==
  /\ last' = [op |-> "bumper:restart", conn |-> c, pid |-> activeGames.gameData]
  /\ Receive
  /\ UNCHANGED nextEid
  /\ IF restartRejection(c) # ""
     THEN Install(Error(World, c, restartRejection(c)))
     ELSE LET game == activeGames
              tm == clearTimer(clearTimer(clearTimer(clearTimer(timers,
                      "gameLoop", game.gameLoop),
                      "syncLoop", game.syncLoop),
                      "countdown", game.countdownInterval),
                      "cleanup", game.cleanupTimeout)
              pid == Len(payloads) + 1
              W1 == [World EXCEPT
                      !.timers = Append(tm, NoTimers),
                      !.payloads = Append(@, NewGameData(lobby, now)),
                      !.hist = Append(@, NewHist(game.gameData)),
                      !.activeGames = [game EXCEPT
                         !.gameLoop = Null, !.syncLoop = Null,
                         !.countdownInterval = Null, !.cleanupTimeout = Null,
                         !.gameData = pid],
                      !.lobby.gameData = pid]
              W2 == Emit(W1, "game:started", "room", pid,
                         LobbyView(W1.lobby, pid))
          IN  Install(startCountdown(W2, pid, now))

\* ------------------------------------------------------------------------
\* Timer callbacks
\* ------------------------------------------------------------------------

\* The timer of the given kind created for payload pid is armed and its
\* delay has elapsed.
Due(pid, kind) == timers[pid][kind].armed /\ now >= timers[pid][kind].due

\* Mutant of IsCurrent: the guard only checks that the room has an entry.
IsCurrentPresenceOnly(pid) == activeGames.present

\* currentGame && currentGame.gameData === gameData
IsCurrent(pid) == activeGames.present /\ activeGames.gameData = pid

\* Mutant of CountdownFire: the interval keeps running after the countdown
\* has run out.
CountdownFireKeepsInterval(pid) ==
  /\ Due(pid, "countdown")
  /\ last' = [op |-> "countdown", conn |-> NoId, pid |-> pid]
  /\ UNCHANGED <<now, nextEid, requests>>
  /\ IF ~IsCurrent(pid)
     THEN Install([World EXCEPT !.timers[pid].countdown = Idle])
     ELSE LET count == timers[pid].count
              W1 == [World EXCEPT !.payloads[pid].countdownValue = count,
                                  !.timers[pid].count = count - 1,
                                  !.timers[pid].countdown = Armed(now, COUNTDOWN_PERIOD)]
              W2 == Emit(W1, "bumper:state-update", "room", pid,
                         sanitizeGameData(W1.payloads[pid]))
          IN  IF count - 1 < 0
              THEN Install(startGameLoop(W2, pid, now))
              ELSE Install(W2)

\* The countdown interval of startCountdown, for payload pid.
CountdownFire(pid) ==
  /\ Due(pid, "countdown")
  /\ last' = [op |-> "countdown", conn |-> NoId, pid |-> pid]
  /\ UNCHANGED <<now, nextEid, requests>>
  /\ IF ~IsCurrent(pid)
     THEN Install([World EXCEPT !.timers[pid].countdown = Idle])
     ELSE LET count == timers[pid].count
              W1 == [World EXCEPT !.payloads[pid].countdownValue = count,
                                  !.timers[pid].count = count - 1,
                                  !.timers[pid].countdown = Armed(now, COUNTDOWN_PERIOD)]
              W2 == Emit(W1, "bumper:state-update", "room", pid,
                         sanitizeGameData(W1.payloads[pid]))
          IN  IF count - 1 < 0
              THEN Install(startGameLoop(
                     [W2 EXCEPT !.timers[pid].countdown = Idle,
                                !.activeGames.countdownInterval = Null],
                     pid, now))
              ELSE Install(W2)

\* Mutant of GameLoopFire: the elimination check runs before the physics
\* step of the tick.
GameLoopFireChecksFirst(pid) ==
  /\ Due(pid, "gameLoop")
  /\ last' = [op |-> "gameLoop", conn |-> NoId, pid |-> pid]
  /\ UNCHANGED <<now, nextEid, requests>>
  /\ IF ~IsCurrent(pid)
     THEN Install([World EXCEPT !.timers[pid].gameLoop = Idle])
     ELSE \E W0 \in {checkEliminations(
                       [World EXCEPT !.timers[pid].gameLoop = Armed(now, TickPeriod)],
                       pid, 1, now)} :
          \E gd \in {updatePhysics([W0.payloads[pid] EXCEPT !.lastTickTime = now],
                                    now - payloads[pid].lastTickTime, now)} :
            Install(checkVictoryCondition([W0 EXCEPT !.payloads[pid] = gd],
                                          pid, now))

\* The physics interval of startGameLoop, for payload pid.
GameLoopFire(pid) ==
  /\ Due(pid, "gameLoop")
  /\ last' = [op |-> "gameLoop", conn |-> NoId, pid |-> pid]
  /\ UNCHANGED <<now, nextEid, requests>>
  /\ IF ~IsCurrent(pid)
     THEN Install([World EXCEPT !.timers[pid].gameLoop = Idle])
     ELSE \E gd \in {updatePhysics([payloads[pid] EXCEPT !.lastTickTime = now],
                                    now - payloads[pid].lastTickTime, now)} :
          \E W1 \in {checkEliminations(
                       [World EXCEPT !.payloads[pid] = gd,
                                     !.timers[pid].gameLoop = Armed(now, TickPeriod)],
                       pid, 1, now)} :
            Install(checkVictoryCondition(W1, pid, now))

\* The broadcast interval of startGameLoop, for payload pid.
SyncLoopFire(pid) ==
  /\ Due(pid, "syncLoop")
  /\ last' = [op |-> "syncLoop", conn |-> NoId, pid |-> pid]
  /\ UNCHANGED <<now, nextEid, requests>>
  /\ IF ~IsCurrent(pid)
     THEN Install([World EXCEPT !.timers[pid].syncLoop = Idle])
     ELSE Install(Emit([World EXCEPT !.lobby.gameData = pid,
                                     !.timers[pid].syncLoop = Armed(now, SyncPeriod)],
                       "bumper:state-update", "room", pid,
                       sanitizeGameData(payloads[pid])))

\* The cleanup timeout of endGame, scheduled by payload pid's end.
CleanupFire(pid) ==
  /\ Due(pid, "cleanup")
  /\ last' = [op |-> "cleanup", conn |-> NoId, pid |-> pid]
  /\ UNCHANGED <<now, nextEid, requests>>
  /\ Install([World EXCEPT !.timers[pid].cleanup = Idle,
                           !.activeGames = NoEntry])

ArmedTimers ==
  {x \in (1..Len(timers)) \X TimerKinds : timers[x[1]][x[2]].armed}

\* The clock can move by d without passing the due time of an armed timer;
\* a timer with a delay below the shortest step is due after that step.
StepOk(d) ==
  \/ \A e \in TimeSteps : d <= e
  \/ \A x \in ArmedTimers : now + d <= timers[x[1]][x[2]].due

\* Time passes by d ms.  The event loop runs every timer whose delay has
\* elapsed before the clock moves on; the clock moves to the next time at
\* which a timer can be due, and only while a timer is armed.
Advance(d) ==
  /\ now + d <= MaxNow
  /\ ArmedTimers # {}
  /\ \A x \in ArmedTimers : ~Due(x[1], x[2])
  /\ StepOk(d)
  /\ \A e \in TimeSteps : e > d => ~StepOk(e)
  /\ now' = now + d
  /\ last' = [op |-> "advance", conn |-> NoId, pid |-> Null]
  /\ out' = <<>>
  /\ UNCHANGED <<lobby, activeGames, payloads, timers, nextEid, hist,
                 requests>>

Pids == 1..Len(payloads)

Next ==
  \/ \E c \in Conns : GameStart(c)
  \/ \E c \in Conns, m \in MoveInputs : Move(c, m)
  \/ \E c \in Conns : ManualEnd(c)
  \/ \E c \in Conns : Restart(c)
  \/ \E pid \in Pids : CountdownFire(pid)
  \/ \E pid \in Pids : GameLoopFire(pid)
  \/ \E pid \in Pids : SyncLoopFire(pid)
  \/ \E pid \in Pids : CleanupFire(pid)
  \/ \E d \in TimeSteps : Advance(d)

Spec == Init /\ [][Next]_vars

\* A timer whose delay has elapsed runs.
TimerStep ==
  \E pid \in Pids :
    \/ CountdownFire(pid)
    \/ GameLoopFire(pid)
    \/ SyncLoopFire(pid)
    \/ CleanupFire(pid)

\* The event loop is live: time passes, and a timer that is due runs.
FairSpec ==
  /\ Spec
  /\ WF_vars(\E d \in TimeSteps : Advance(d))
  /\ WF_vars(TimerStep)

\* The next request of the host's script is op.
Scripted(op) ==
  /\ requests > 0
  /\ DeepScript[Len(DeepScript) - requests + 1] = op

\* The host alone sends requests, in the order of the script.
NextDeep ==
  \/ Scripted("game:start") /\ GameStart(HostId)
  \/ Scripted("game:end") /\ ManualEnd(HostId)
  \/ Scripted("bumper:restart") /\ Restart(HostId)
  \/ \E pid \in Pids : CountdownFire(pid)
  \/ \E pid \in Pids : GameLoopFire(pid)
  \/ \E pid \in Pids : SyncLoopFire(pid)
  \/ \E pid \in Pids : CleanupFire(pid)
  \/ \E d \in TimeSteps : Advance(d)

SpecDeep == InitDeep /\ [][NextDeep]_vars

\* ------------------------------------------------------------------------
\* A game observed from the middle of its playing phase: the room's players
\* are in the arena in one of a few situations each, and the physics and
\* broadcast intervals run.  The clock is read relative to the observed
\* tick, so a game that began long before it has a negative startTime.
\* ------------------------------------------------------------------------
TickStart == MaxNow - 3000

\* What a ball is doing when the observation begins.
Kits ==
  {"rest", "scorer", "gone", "edgeOut", "edgeOutLate", "inward", "meet",
   "graze", "still", "drift"}

\* The point at distance r from the center in the direction of spawn i.
OnRay(i, n, r) ==
  [x |-> MulDiv(SpawnX(i - 1, n), r, SPAWN_RADIUS),
   z |-> MulDiv(SpawnZ(i - 1, n), r, SPAWN_RADIUS)]

\* The ball of player i of n in situation k.  A ball that was hit was hit
\* by the next player of the list; a scorer has pushed out a ball before.
KitBall(base, k, i, n) ==
  LET at(r, y) == [x |-> OnRay(i, n, r).x, y |-> y, z |-> OnRay(i, n, r).z]
      going(v) == [x |-> OnRay(i, n, v).x, y |-> 0, z |-> OnRay(i, n, v).z]
      hitter == AllIds[(i % n) + 1]
      played == [base EXCEPT !.acceleration.y = -GRAVITY,
                             !.survivalTime = 4000 - TickPeriod]
  IN  CASE k = "rest" -> played
        [] k = "scorer" -> [played EXCEPT !.eliminations = 1]
        [] k = "gone" ->
             [played EXCEPT !.position = at(PLATFORM_RADIUS + 40, SPAWN_HEIGHT),
                            !.velocity = going(2700),
                            !.isEliminated = TRUE,
                            !.eliminatedAt = TickStart - 2000,
                            !.survivalTime = 2000]
        [] k = "edgeOut" ->
             [played EXCEPT !.position = at(PLATFORM_RADIUS - 10, SPAWN_HEIGHT),
                            !.velocity = going(MAX_VELOCITY),
                            !.lastHitBy = hitter,
                            !.lastHitTime = TickStart - 1000]
        [] k = "edgeOutLate" ->
             [played EXCEPT !.position = at(PLATFORM_RADIUS - 10, SPAWN_HEIGHT),
                            !.velocity = going(MAX_VELOCITY),
                            !.lastHitBy = hitter,
                            !.lastHitTime = TickStart - HIT_CREDIT_WINDOW]
        [] k = "inward" ->
             [played EXCEPT !.position = at(40, SPAWN_HEIGHT),
                            !.velocity = going(-2000)]
        \* one period at this velocity takes the ball to the center
        [] k = "meet" ->
             [played EXCEPT !.position = at(51, SPAWN_HEIGHT),
                            !.velocity = going(-3334)]
        \* apart from its neighbours now, just in touch with them one
        \* period later
        [] k = "graze" ->
             [played EXCEPT !.position = at(66, SPAWN_HEIGHT),
                            !.velocity = going(-588)]
        \* at rest, just in touch with a neighbour that is at rest
        [] k = "still" ->
             [played EXCEPT !.position = at(57, SPAWN_HEIGHT)]
        [] OTHER ->
             [played EXCEPT !.position = at(PLATFORM_RADIUS - 100, SPAWN_HEIGHT),
                            !.velocity = going(MAX_VELOCITY),
                            !.lastInput = [x |-> 1, z |-> 0, sprint |-> TRUE],
                            !.isSprinting = TRUE,
                            !.stamina = 20000]

\* The situations ks can be those of a game that still is being played: two
\* balls or more are in the arena, and no more eliminations are credited
\* than balls have left it.
Playable(ks) ==
  /\ Cardinality({i \in DOMAIN ks : ks[i] # "gone"}) >= 2
  /\ Cardinality({i \in DOMAIN ks : ks[i] = "scorer"})
       <= Cardinality({i \in DOMAIN ks : ks[i] = "gone"})

\* The game modes and the times at which playing began: 4 s before the
\* observed tick, or TIMED_DURATION before it.
TickGames ==
  {[gameMode |-> "unset", startTime |-> TickStart - 4000],
   [gameMode |-> "timed", startTime |-> TickStart - 4000],
   [gameMode |-> "timed", startTime |-> TickStart - TIMED_DURATION * 1000]}

\* The world in which game g is played by balls in the situations ks, one
\* physics period after its last tick: the game was created by game:start,
\* its countdown ran out and startGameLoop started its intervals.
MidGame(g, ks) ==
  LET n == Len(ks)
      W0 == [lobby |-> [hostId |-> HostId,
                        players |-> [i \in 1..n |->
                                       [socketId |-> AllIds[i], score |-> 0]],
                        state |-> "PLAYING",
                        gameData |-> Null,
                        gameMode |-> g.gameMode,
                        messages |-> RoomLog(n)],
             activeGames |-> NoEntry, payloads |-> <<>>, timers |-> <<>>,
             out |-> <<>>, hist |-> <<>>]
      W1 == sendSystemMessage(initializeBumperBallsGame(W0, 1, g.startTime),
                              "Game starting!")
      W2 == startGameLoop(
              [W1 EXCEPT !.payloads[1].countdownValue = 0,
                         !.timers[1].countdown = Idle,
                         !.timers[1].count = -1,
                         !.activeGames.countdownInterval = Null],
              1, g.startTime)
      balls == [i \in 1..n |-> KitBall(W2.payloads[1].players[i], ks[i], i, n)]
      ids(elim) == {i \in 1..n : balls[i].isEliminated = elim}
      Listed(S) == [j \in 1..Cardinality(S) |->
                      balls[CHOOSE i \in S :
                              Cardinality({k \in S : k < i}) = j - 1].socketId]
  IN  [W2 EXCEPT
        !.payloads[1].players = balls,
        !.payloads[1].alivePlayers = Listed(ids(FALSE)),
        !.payloads[1].eliminationOrder = Listed(ids(TRUE)),
        !.payloads[1].lastTickTime = TickStart - TickPeriod,
        !.timers[1].gameLoop = Armed(TickStart - TickPeriod, TickPeriod),
        !.timers[1].syncLoop = Armed(TickStart - SyncPeriod, SyncPeriod),
        !.out = <<>>]

InitTick ==
  /\ now = TickStart
  /\ \E g \in TickGames :
       \E ks \in [1..TickPlayers -> Kits] :
         /\ Playable(ks)
         /\ \E W \in {MidGame(g, ks)} :
              /\ lobby = W.lobby
              /\ activeGames = W.activeGames
              /\ payloads = W.payloads
              /\ timers = W.timers
              /\ hist = W.hist
  /\ nextEid = 2
  /\ out = <<>>
  /\ last = [op |-> "init", conn |-> NoId, pid |-> Null]
  /\ requests = 0

\* The intervals of the observed game run and time passes.
NextTick ==
  \/ \E pid \in Pids : GameLoopFire(pid)
  \/ \E pid \in Pids : SyncLoopFire(pid)
  \/ \E d \in TimeSteps : Advance(d)

SpecTick == InitTick /\ [][NextTick]_vars

\* ------------------------------------------------------------------------
\* The stamina of a ball that stays in the arena while its player holds the
\* sprint input, followed over the ticks of the physics interval from the
\* start of playing.
\* ------------------------------------------------------------------------

\* Date.now() differences (ms) between two ticks of an interval of
\* 1000 / TICK_RATE ms.
TickDeltas == {TickPeriod - 1, TickPeriod}

HeldInput == [x |-> 1, z |-> 0, sprint |-> TRUE]

InitSprint ==
  /\ now = 0
  /\ \E W \in {startGameLoop(
                 [sendSystemMessage(initializeBumperBallsGame(
                    [lobby |-> [hostId |-> HostId,
                                players |-> [i \in 1..NumPlayers |->
                                               [socketId |-> Roster[i],
                                                score |-> 0]],
                                state |-> "PLAYING",
                                gameData |-> Null,
                                gameMode |-> "unset",
                                messages |-> RoomLog(NumPlayers)],
                     activeGames |-> NoEntry, payloads |-> <<>>,
                     timers |-> <<>>, out |-> <<>>, hist |-> <<>>], 1, 0),
                    "Game starting!")
                  EXCEPT !.payloads[1].countdownValue = 0,
                         !.timers[1].countdown = Idle,
                         !.timers[1].count = -1,
                         !.activeGames.countdownInterval = Null], 1, 0)} :
       /\ lobby = W.lobby
       /\ activeGames = W.activeGames
       /\ payloads = [W.payloads EXCEPT ![1].players[1].lastInput = HeldInput]
       /\ timers = W.timers
       /\ hist = <<[gameEnds |-> 0, restartOf |-> Null, lowest |-> MAX_STAMINA]>>
  /\ nextEid = 2
  /\ out = <<>>
  /\ last = [op |-> "init", conn |-> NoId, pid |-> Null]
  /\ requests = 0

\* A tick dt ms after the last one, as far as the stamina of the first ball
\* goes: updatePhysics adds dt to survivalTime and calls updateStamina.
SprintTick(dt) ==
  /\ now + dt <= SprintHorizon
  /\ IsCurrent(1)
  /\ payloads[1].status = "playing"
  /\ ~payloads[1].players[1].isEliminated
  /\ now' = now + dt
  /\ \E p \in {updateStamina(
                 [payloads[1].players[1] EXCEPT !.survivalTime = @ + dt], dt)} :
       /\ payloads' = [payloads EXCEPT ![1].lastTickTime = now + dt,
                                       ![1].players[1] = p]
       /\ hist' = [hist EXCEPT ![1].lowest =
                     IF p.stamina < @ THEN p.stamina ELSE @]
  /\ last' = [op |-> "gameLoop", conn |-> NoId, pid |-> 1]
  /\ out' = <<>>
  /\ UNCHANGED <<lobby, activeGames, timers, nextEid, requests>>

NextSprint == \E dt \in TickDeltas : SprintTick(dt)

SpecSprint == InitSprint /\ [][NextSprint]_vars

\* ------------------------------------------------------------------------
\* Move messages around the ticks of a game: the room's players and a
\* connection that is no player of the room send a few of them, to a game
\* that is being played or to a room whose game has been torn down.
\* ------------------------------------------------------------------------

\* A connected socket that is not in the room's lobby.
Outsider == "z"

MoveConns == Conns \cup {Outsider}

MoveChoices ==
  {[x |-> 1, z |-> 0, sprint |-> TRUE],
   [x |-> -1, z |-> 0, sprint |-> FALSE],
   [x |-> 0, z |-> 1, sprint |-> FALSE]}

\* A classic game of the room's players, all of them at rest.
RestGame ==
  MidGame([gameMode |-> "unset", startTime |-> TickStart - 4000],
          [i \in 1..NumPlayers |-> "rest"])

\* The room after the host has ended that game with game:end and the
\* teardown of endGame has run.
TornDown ==
  LET W == serverGameEnd(bumperGameEnd(RestGame, TickStart - CLEANUP_DELAY),
                         HostId)
  IN  [W EXCEPT !.timers[1].cleanup = Idle,
                !.activeGames = NoEntry,
                !.out = <<>>]

InitMove ==
  /\ now = TickStart
  /\ \E W \in {RestGame, TornDown} :
       /\ lobby = W.lobby
       /\ activeGames = W.activeGames
       /\ payloads = W.payloads
       /\ timers = W.timers
       /\ hist = W.hist
  /\ nextEid = 2
  /\ out = <<>>
  /\ last = [op |-> "init", conn |-> NoId, pid |-> Null]
  /\ requests = MaxMoves

NextMove ==
  \/ \E c \in MoveConns, m \in MoveChoices : Move(c, m)
  \/ \E pid \in Pids : GameLoopFire(pid)
  \/ \E pid \in Pids : SyncLoopFire(pid)
  \/ \E d \in TimeSteps : Advance(d)

SpecMove == InitMove /\ [][NextMove]_vars

\* ------------------------------------------------------------------------
\* The chat of the room: players send chat messages, and the host's
\* game:start and game:end add system messages, to a history of some length.
\* ------------------------------------------------------------------------

\* Texts of chat messages: empty, blank, and texts that sanitizeInput
\* changes.
ChatTexts == {"", " ", " hi ", "<b>"}

\* input.trim()
Trim(text) ==
  CASE text = " " -> ""
    [] text = " hi " -> "hi"
    [] OTHER -> text

\* sanitizeInput: input.trim().replace(/[<>]/g, '')
sanitizeInput(text) == IF Trim(text) = "<b>" THEN "b" ELSE Trim(text)

\* validateChatMessage(message).valid
validateChatMessage(text) == text # "" /\ Trim(text) # ""

\* socket.on('chat:send-message') of the server
ChatSend(c, text) ==
  /\ last' = [op |-> "chat:send-message", conn |-> c, pid |-> Null]
  /\ Receive
  /\ UNCHANGED nextEid
  /\ IF IndexOf(lobby.players, c) = 0 THEN Install(World)
     ELSE IF ~validateChatMessage(text)
     THEN Install(Error(World, c, "Message cannot be empty"))
     ELSE LET chatMessage == [playerId |-> c, message |-> sanitizeInput(text)]
              pushed == Append(lobby.messages, chatMessage)
              kept == IF Len(pushed) > CHAT_LIMIT
                      THEN SubSeq(pushed, Len(pushed) - CHAT_LIMIT + 1, Len(pushed))
                      ELSE pushed
          IN  Install(Emit([World EXCEPT !.lobby.messages = kept],
                           "chat:message", "room", Null, chatMessage))

\* Lengths of the chat history when the observation begins: the room has
\* just been set up, or its players have chatted up to (nearly) the limit.
ChatFills == {NumPlayers, CHAT_LIMIT - 1, CHAT_LIMIT}

InitChat ==
  /\ BootRest
  /\ requests = MaxChats
  /\ \E n \in ChatFills :
       lobby = [BootLobby EXCEPT !.messages =
                  [k \in 1..n |-> IF k <= NumPlayers THEN RoomLog(NumPlayers)[k]
                                  ELSE [playerId |-> HostId, message |-> "hi"]]]

NextChat ==
  \/ \E c \in MoveConns, text \in ChatTexts : ChatSend(c, text)
  \/ \E c \in Conns : GameStart(c)
  \/ \E c \in Conns : ManualEnd(c)

SpecChat == InitChat /\ [][NextChat]_vars

\* ------------------------------------------------------------------------
\* A game of TickPlayers balls observed from the middle of its playing
\* phase while its players send move messages: some balls have left the
\* arena, some are about to, some are about to collide.
\* ------------------------------------------------------------------------
ArenaKits == {"gone", "edgeOut", "inward"}

ArenaConns == {AllIds[i] : i \in 1..TickPlayers}

InitArena ==
  /\ now = TickStart
  /\ \E ks \in [1..TickPlayers -> ArenaKits] :
       /\ Playable(ks)
       /\ \E W \in {MidGame([gameMode |-> "unset",
                              startTime |-> TickStart - 4000], ks)} :
            /\ lobby = W.lobby
            /\ activeGames = W.activeGames
            /\ payloads = W.payloads
            /\ timers = W.timers
            /\ hist = W.hist
  /\ nextEid = 2
  /\ out = <<>>
  /\ last = [op |-> "init", conn |-> NoId, pid |-> Null]
  /\ requests = MaxMoves

NextArena ==
  \/ \E c \in ArenaConns, m \in MoveChoices : Move(c, m)
  \/ \E pid \in Pids : GameLoopFire(pid)
  \/ \E pid \in Pids : SyncLoopFire(pid)
  \/ \E d \in TimeSteps : Advance(d)

SpecArena == InitArena /\ [][NextArena]_vars

\* ------------------------------------------------------------------------
\* Properties
\* ------------------------------------------------------------------------
TimerOps == {"countdown", "gameLoop", "syncLoop"}

\* The messages of the last step with the given event name.
EmittedNext(event) == {i \in 1..Len(out') : out'[i].event = event}

\* Payload p is the one registered for the room.
Registered(p) == activeGames.present /\ activeGames.gameData = p

\* C1: within one payload the status only moves forward along
\* countdown -> playing -> ended: an ended payload never becomes playing or
\* countdown again, a playing payload never becomes countdown again.
C1_StatusForward ==
  [][\A p \in Pids :
       /\ payloads[p].status = "ended" => payloads'[p].status = "ended"
       /\ payloads[p].status = "playing" => payloads'[p].status # "countdown"]_vars

\* C2: winnerId of a payload is assigned at most once, in the step in which
\* status becomes ended, and never changes afterwards.
C2_WinnerOnce ==
  [][\A p \in Pids :
       /\ payloads[p].winnerId # NoId =>
            payloads'[p].winnerId = payloads[p].winnerId
       /\ (payloads[p].winnerId = NoId /\ payloads'[p].winnerId # NoId) =>
            (payloads[p].status # "ended" /\ payloads'[p].status = "ended")]_vars

\* C3: exactly one bumper:game-end is emitted for a payload that reaches
\* ended, and none for a payload that does not.
C3_GameEndOnce ==
  \A p \in Pids :
    /\ hist[p].gameEnds <= 1
    /\ payloads[p].status = "ended" => hist[p].gameEnds = 1

\* C4: once a payload's status is ended, no invocation of the countdown,
\* tick or broadcast task of that payload changes a field of it or emits a
\* state-update.
C4_EndedStopsTasks ==
  [][\A p \in Pids :
       (payloads[p].status = "ended" /\ last'.op \in TimerOps /\ last'.pid = p)
         => (payloads'[p] = payloads[p] /\ EmittedNext("bumper:state-update") = {})]_vars

\* C5: a countdown, tick or broadcast task invoked when its payload is no
\* longer the one registered for the room (replaced by a restart or a new
\* game, or the entry removed) cancels itself, mutates no payload and emits
\* no message.
C5_StaleTaskCancels ==
  [][\A p \in Pids :
       (/\ last'.op \in TimerOps /\ last'.pid = p
        /\ ~(activeGames.present /\ activeGames.gameData = p))
         => /\ ~timers'[p][last'.op].armed
            /\ payloads' = payloads
            /\ lobby' = lobby
            /\ activeGames' = activeGames
            /\ out' = <<>>]_vars

\* C5 witness: the tick task of a payload that is no longer the registered
\* one has just run and cancelled itself.
C5_Witness ==
  /\ last.op = "gameLoop"
  /\ ~Registered(last.pid)
  /\ ~timers[last.pid].gameLoop.armed

\* C6: a game:end request of a connection that is not the host does not
\* end the session: payloads, timers and lobby scores stay as they are and
\* no bumper:game-end is emitted.
C6_ManualEndHostOnly ==
  [][(last'.op = "game:end" /\ last'.conn # lobby.hostId)
       => /\ payloads' = payloads
          /\ timers' = timers
          /\ lobby'.players = lobby.players
          /\ EmittedNext("bumper:game-end") = {}]_vars

\* C7: a bumper:restart request of a connection that is not the host, or
\* for a room without registry entry, emits one error to the requesting
\* connection only and leaves registry, payloads, timers and lobby unchanged.
C7_RestartRejected ==
  [][(last'.op = "bumper:restart"
      /\ (last'.conn # lobby.hostId \/ ~activeGames.present))
       => /\ Len(out') = 1
          /\ out'[1].event = "error"
          /\ out'[1].to = last'.conn
          /\ activeGames' = activeGames
          /\ payloads' = payloads
          /\ timers' = timers
          /\ lobby' = lobby]_vars

\* C7 witness: a restart request of a non-host was answered with an error
\* while the room has a session.
C7_Witness ==
  /\ last.op = "bumper:restart"
  /\ last.conn # lobby.hostId
  /\ activeGames.present
  /\ Len(out) = 1 /\ out[1].event = "error"

\* The squared distance of two positions in the plane.
Chord2(a, b) ==
  (a.x - b.x) * (a.x - b.x) + (a.z - b.z) * (a.z - b.z)

\* The n balls stand evenly on the spawn ring, the first at angle 0: each
\* at distance SPAWN_RADIUS from the center (up to rounding), neighbours
\* all equally far apart, no two on the same spot, and in the order of their
\* indexes around the ring.
OnSpawnRing(ps) ==
  LET n == Len(ps)
      nxt(i) == IF i = n THEN 1 ELSE i + 1
  IN  /\ ps[1].position.x = SPAWN_RADIUS /\ ps[1].position.z = 0
      /\ \A i \in 1..n :
           /\ ps[i].position.y = SPAWN_HEIGHT
           /\ Abs(ps[i].position.x * ps[i].position.x
                  + ps[i].position.z * ps[i].position.z
                  - SPAWN_RADIUS * SPAWN_RADIUS) <= 2 * SPAWN_RADIUS
           /\ Abs(Chord2(ps[i].position, ps[nxt(i)].position)
                  - Chord2(ps[1].position, ps[nxt(1)].position)) <= 4 * SPAWN_RADIUS
      /\ \A i, k \in 1..n : i # k => ps[i].position # ps[k].position
      /\ n >= 3 =>
           \A i \in 1..n :
             ps[i].position.x * ps[nxt(i)].position.z
               - ps[i].position.z * ps[nxt(i)].position.x > 0

\* A fresh payload for the lobby's players: countdown at its full value,
\* every ball reset and on the spawn ring, everybody alive, nobody
\* eliminated, no winner.
FreshPayload(gd, lb) ==
  /\ gd.status = "countdown"
  /\ gd.countdownValue = COUNTDOWN_DURATION
  /\ Len(gd.players) = Len(lb.players)
  /\ \A i \in 1..Len(gd.players) :
       /\ gd.players[i].socketId = lb.players[i].socketId
       /\ ~gd.players[i].isEliminated
       /\ gd.players[i].eliminations = 0
       /\ gd.players[i].stamina = MAX_STAMINA
  /\ OnSpawnRing(gd.players)
  /\ gd.alivePlayers = [i \in 1..Len(lb.players) |-> lb.players[i].socketId]
  /\ gd.eliminationOrder = <<>>
  /\ gd.winnerId = NoId

\* C8: an accepted restart of a session whose status is ended installs a
\* new payload that is fresh; nothing of the previous payload's
\* eliminationOrder or winnerId appears in it.
C8_RestartFresh ==
  [][(/\ last'.op = "bumper:restart"
      /\ activeGames.present
      /\ last'.conn = lobby.hostId
      /\ payloads[activeGames.gameData].status = "ended")
       => /\ activeGames'.present
          /\ activeGames'.gameData \notin Pids
          /\ FreshPayload(payloads'[activeGames'.gameData], lobby)]_vars

\* C8 witness: the host's restart has just replaced an ended payload that
\* had a winner and a non-empty eliminationOrder.
C8_Witness ==
  /\ last.op = "bumper:restart"
  /\ last.pid # Null
  /\ Registered(Len(payloads))
  /\ hist[Len(payloads)].restartOf = last.pid
  /\ payloads[last.pid].status = "ended"
  /\ payloads[last.pid].winnerId # NoId
  /\ payloads[last.pid].eliminationOrder # <<>>
  /\ payloads[Len(payloads)].status = "countdown"

\* The registered payload has ended at least once.
RegisteredEnded ==
  activeGames.present /\ hist[activeGames.gameData].gameEnds > 0

\* The registered payload was installed by a restart and has not ended.
RestartedRunning ==
  /\ activeGames.present
  /\ hist[activeGames.gameData].restartOf # Null
  /\ hist[activeGames.gameData].gameEnds = 0

\* A teardown is scheduled for a time after the analysed period.
TeardownBeyondHorizon ==
  \E p \in Pids : timers[p].cleanup.armed /\ timers[p].cleanup.due > MaxNow

\* C9: if the registered payload has ended and no restart is accepted for
\* the room afterwards, the room's registry entry is eventually removed,
\* also when the session was ended more than once (within the analysed
\* period: or else the teardown is scheduled after its end).
C9_TeardownEventually ==
  RegisteredEnded ~>
    (~activeGames.present \/ RestartedRunning \/ TeardownBeyondHorizon)

\* C9 witness: the teardown of a payload that was ended more than once has
\* just removed the entry.
C9_Witness ==
  /\ last.op = "cleanup"
  /\ ~activeGames.present
  /\ hist[last.pid].gameEnds >= 2

\* C10: after an accepted restart of an ended session no teardown removes
\* the room's entry: as long as the restarted payload has not ended and no
\* new game was started for the room, it stays the registered payload.
C10_RestartSupersedesTeardown ==
  \A q \in Pids :
    (/\ q = Len(payloads)
     /\ hist[q].restartOf # Null
     /\ hist[q].gameEnds = 0)
      => (activeGames.present /\ activeGames.gameData = q)

\* ------------------------------------------------------------------------
\* Players in and out of the arena
\* ------------------------------------------------------------------------
Balls(pid) == 1..Len(payloads[pid].players)

\* The ids of the balls of payload gd whose isEliminated is b.
IdsWhere(gd, b) ==
  {gd.players[i].socketId : i \in {k \in 1..Len(gd.players) :
                                     gd.players[k].isEliminated = b}}

Range(seq) == {seq[j] : j \in 1..Len(seq)}

\* The balls of payload pid that the step eliminates.
Flipped(pid) ==
  {i \in Balls(pid) : /\ ~payloads[pid].players[i].isEliminated
                      /\ payloads'[pid].players[i].isEliminated}

\* The ball at index i of payload pid was eliminated by the tick that just
\* ran.
OutThisTick(pid, i) ==
  /\ last.op = "gameLoop" /\ last.pid = pid
  /\ payloads[pid].players[i].isEliminated
  /\ payloads[pid].players[i].eliminatedAt = now

\* C11: in every state of every payload, alivePlayers lists exactly the ids
\* of the players that are not eliminated, eliminationOrder lists exactly
\* the ids of the eliminated players, and neither lists an id twice.
C11_AliveAndOrderPartition ==
  \A pid \in Pids :
    LET gd == payloads[pid]
    IN  /\ Range(gd.alivePlayers) = IdsWhere(gd, FALSE)
        /\ Len(gd.alivePlayers) = Cardinality(IdsWhere(gd, FALSE))
        /\ Range(gd.eliminationOrder) = IdsWhere(gd, TRUE)
        /\ Len(gd.eliminationOrder) = Cardinality(IdsWhere(gd, TRUE))

\* A tick has eliminated a ball while another ball had been eliminated
\* before and others remain.
C11_Witness ==
  \E pid \in Pids :
    /\ \E i \in Balls(pid) : OutThisTick(pid, i)
    /\ \E i \in Balls(pid) : /\ payloads[pid].players[i].isEliminated
                             /\ payloads[pid].players[i].eliminatedAt < now
    /\ payloads[pid].alivePlayers # <<>>

\* C12: elimination is monotonic within a payload: an eliminated player
\* stays eliminated, eliminationOrder grows at its end only, alivePlayers
\* gains no member and loses one id for each player a step eliminates.
C12_MonotonicElimination ==
  [][\A pid \in Pids :
       LET gd == payloads[pid]
           gd1 == payloads'[pid]
       IN  /\ \A i \in Balls(pid) :
                gd.players[i].isEliminated => gd1.players[i].isEliminated
           /\ Len(gd1.eliminationOrder) >= Len(gd.eliminationOrder)
           /\ SubSeq(gd1.eliminationOrder, 1, Len(gd.eliminationOrder))
                = gd.eliminationOrder
           /\ Range(gd1.alivePlayers) \subseteq Range(gd.alivePlayers)
           /\ Len(gd.alivePlayers) - Len(gd1.alivePlayers)
                = Cardinality(Flipped(pid))
           /\ Len(gd1.eliminationOrder) - Len(gd.eliminationOrder)
                = Cardinality(Flipped(pid))
           /\ Range(gd.alivePlayers) \ Range(gd1.alivePlayers)
                = {gd.players[i].socketId : i \in Flipped(pid)}]_vars

\* One tick has eliminated two balls.
C12_Witness ==
  \E pid \in Pids :
    \E i, j \in Balls(pid) :
      i # j /\ OutThisTick(pid, i) /\ OutThisTick(pid, j)

\* C13: at the end of every tick no player that is not eliminated is
\* farther from the center than the platform radius.
C13_OutOfBoundsEliminated ==
  \A pid \in Pids :
    \A i \in Balls(pid) :
      LET p == payloads[pid].players[i]
      IN  (~p.nan /\ BeyondRadius(p.position.x, p.position.z, PLATFORM_RADIUS))
            => p.isEliminated

\* A tick has eliminated a ball that left the platform radius and is above
\* the fall threshold.
C13_Witness ==
  \E pid \in Pids :
    \E i \in Balls(pid) :
      LET p == payloads[pid].players[i]
      IN  /\ OutThisTick(pid, i)
          /\ BeyondRadius(p.position.x, p.position.z, PLATFORM_RADIUS)
          /\ p.position.y >= FALL_THRESHOLD

\* The bumper:player-eliminated messages of the step for ball i of pid.
EliminatedNotices(pid, i) ==
  {j \in EmittedNext("bumper:player-eliminated") :
     /\ out'[j].pid = pid
     /\ out'[j].data.socketId = payloads[pid].players[i].socketId}

\* C14: a step emits one bumper:player-eliminated message for each player
\* it eliminates and none for any other player, so that each player gets
\* one at most; the message's remainingPlayers is the number of players
\* not eliminated once that player is.
C14_OneNoticePerElimination ==
  [][\A pid \in Pids :
       \A i \in Balls(pid) :
         LET id == payloads[pid].players[i].socketId
             n == Len(payloads[pid].players)
         IN  /\ payloads[pid].players[i].isEliminated
                  => payloads'[pid].players[i].isEliminated
             /\ Cardinality(EliminatedNotices(pid, i))
                  = IF i \in Flipped(pid) THEN 1 ELSE 0
             /\ \A j \in EliminatedNotices(pid, i) :
                  out'[j].data.remainingPlayers
                    = n - (OrderIndexOf(payloads'[pid].eliminationOrder, id) + 1)]_vars

\* A tick has eliminated a ball that was both beyond the platform radius
\* and below the fall threshold, and has announced it.
C14_Witness ==
  \E pid \in Pids :
    \E i \in Balls(pid) :
      LET p == payloads[pid].players[i]
      IN  /\ OutThisTick(pid, i)
          /\ BeyondRadius(p.position.x, p.position.z, PLATFORM_RADIUS)
          /\ p.position.y < FALL_THRESHOLD
          /\ \E j \in 1..Len(out) :
               /\ out[j].event = "bumper:player-eliminated"
               /\ out[j].data.socketId = p.socketId

\* ------------------------------------------------------------------------
\* Victory
\* ------------------------------------------------------------------------

\* The step is a tick of payload pid's physics interval that finds the game
\* being played.
PlayingTick(pid) ==
  /\ GameLoopFire(pid)
  /\ IsCurrent(pid)
  /\ payloads[pid].status = "playing"

\* The balls of payload pid that are not eliminated after the step.
AliveNext(pid) ==
  {i \in Balls(pid) : ~payloads'[pid].players[i].isEliminated}

\* C15: in classic mode a tick whose elimination check leaves exactly one
\* player that is not eliminated ends the game, and the winner is that
\* player.
C15_SoleSurvivorWins ==
  [][\A pid \in Pids :
       (/\ PlayingTick(pid)
        /\ payloads[pid].gameMode = "classic"
        /\ Cardinality(AliveNext(pid)) = 1)
       => /\ payloads'[pid].status = "ended"
          /\ \A i \in AliveNext(pid) :
               payloads'[pid].winnerId = payloads[pid].players[i].socketId]_vars

\* A tick of a classic game has eliminated a ball, one ball is left, and
\* the game has ended.
C15_Witness ==
  \E pid \in Pids :
    /\ payloads[pid].gameMode = "classic"
    /\ payloads[pid].status = "ended"
    /\ \E i \in Balls(pid) : OutThisTick(pid, i)
    /\ Cardinality({i \in Balls(pid) : ~payloads[pid].players[i].isEliminated}) = 1

\* C16: a tick that eliminates all the players that were left ends the game,
\* and the winner is the last id of eliminationOrder.
C16_LastEliminatedWins ==
  [][\A pid \in Pids :
       (/\ PlayingTick(pid)
        /\ Flipped(pid) # {}
        /\ AliveNext(pid) = {})
       => /\ payloads'[pid].status = "ended"
          /\ payloads'[pid].winnerId
               = payloads'[pid].eliminationOrder[
                   Len(payloads'[pid].eliminationOrder)]]_vars

\* The balls with the most eliminations after the step.
TopNext(pid) ==
  {i \in Balls(pid) :
     \A k \in Balls(pid) : payloads'[pid].players[k].eliminations
                             <= payloads'[pid].players[i].eliminations}

\* C17: in timed mode a tick at which TIMED_DURATION has passed since
\* playing began, and which leaves more than one player not eliminated,
\* ends the game; the winner has the highest elimination count and the
\* smallest index among the players that have it.
C17_TimedLeaderWins ==
  [][\A pid \in Pids :
       (/\ PlayingTick(pid)
        /\ payloads[pid].gameMode = "timed"
        /\ now - payloads[pid].startTime >= TIMED_DURATION * 1000
        /\ Cardinality(AliveNext(pid)) > 1)
       => /\ payloads'[pid].status = "ended"
          /\ \E w \in TopNext(pid) :
               /\ \A k \in TopNext(pid) : w <= k
               /\ payloads'[pid].winnerId
                    = payloads[pid].players[w].socketId]_vars

\* A timed game has ended at its duration with two balls or more left and
\* two balls tied for the most eliminations.
C17_Witness ==
  \E pid \in Pids :
    LET ps == payloads[pid].players
        top == {i \in Balls(pid) :
                  \A k \in Balls(pid) : ps[k].eliminations <= ps[i].eliminations}
    IN  /\ last.op = "gameLoop" /\ last.pid = pid
        /\ payloads[pid].gameMode = "timed"
        /\ payloads[pid].status = "ended"
        /\ now - payloads[pid].startTime >= TIMED_DURATION * 1000
        /\ Cardinality({i \in Balls(pid) : ~ps[i].isEliminated}) > 1
        /\ Cardinality(top) > 1
        /\ \E w \in top : /\ \A k \in top : w <= k
                          /\ payloads[pid].winnerId = ps[w].socketId

\* The elimination of ball v by the step is credited to ball k: v's last
\* hit was by k less than HIT_CREDIT_WINDOW before, and k was not
\* eliminated when v was (the check eliminates in the order of the list).
Credits(pid, v, k) ==
  LET victim == payloads'[pid].players[v]
  IN  /\ v \in Flipped(pid)
      /\ victim.lastHitBy = payloads[pid].players[k].socketId
      /\ victim.lastHitTime # Undefined
      /\ now - victim.lastHitTime < HIT_CREDIT_WINDOW
      /\ ~payloads[pid].players[k].isEliminated
      /\ ~(k \in Flipped(pid) /\ k < v)

\* C18: a player's eliminations counter grows by one for each elimination
\* whose victim names that player in lastHitBy with a hit less than 3 s old
\* while that player is not eliminated, and by nothing else.
C18_HitCredit ==
  [][\A pid \in Pids :
       \A k \in Balls(pid) :
         payloads'[pid].players[k].eliminations
           = payloads[pid].players[k].eliminations
             + Cardinality({v \in Balls(pid) : Credits(pid, v, k)})]_vars

\* A tick has eliminated three balls hit by their neighbours in time: the
\* first two eliminations were credited, the third was not because its
\* hitter had been eliminated before.
C18_Witness ==
  \E pid \in Pids :
    LET ps == payloads[pid].players
    IN  /\ \A i \in Balls(pid) :
             /\ OutThisTick(pid, i)
             /\ ps[i].lastHitBy # NoId
             /\ now - ps[i].lastHitTime < HIT_CREDIT_WINDOW
        /\ \E i \in Balls(pid) :
             /\ ps[i].eliminations = 0
             /\ \E v \in Balls(pid) : ps[v].lastHitBy = ps[i].socketId
        /\ \E i \in Balls(pid) : ps[i].eliminations = 1

\* ------------------------------------------------------------------------
\* Lobby scores and stamina
\* ------------------------------------------------------------------------

\* C19: each payload that has ended has added exactly one point to the
\* lobby score of its winner, and the engine changes no other score: a
\* lobby player's score is the number of ended payloads that player won.
C19_OnePointPerGame ==
  \A i \in 1..Len(lobby.players) :
    lobby.players[i].score
      = Cardinality({pid \in Pids :
                       /\ hist[pid].gameEnds > 0
                       /\ payloads[pid].winnerId = lobby.players[i].socketId})

\* Tick deltas (ms) and inputs on which the stamina update is evaluated in
\* every state, besides those of the ticks themselves.
StaminaDeltas == {0, 1, 17, 1000, 10000}

StaminaInputs ==
  {[x |-> x, z |-> 0, sprint |-> s] : x \in {-1, 0, 1}, s \in BOOLEAN}

InRange(stamina) == 0 <= stamina /\ stamina <= MAX_STAMINA

\* C20: the stamina of every player is within [0, MAX_STAMINA] in every
\* state, and the stamina update of a player that is not eliminated gives
\* a value in that range for every input and every tick delta.
C20_StaminaBounds ==
  \A pid \in Pids :
    \A i \in Balls(pid) :
      LET p == payloads[pid].players[i]
      IN  /\ InRange(p.stamina)
          /\ ~p.isEliminated =>
               \A dt \in StaminaDeltas, input \in StaminaInputs, s \in BOOLEAN :
                 InRange(updateStamina([p EXCEPT !.lastInput = input,
                                                 !.isSprinting = s], dt).stamina)

\* A tick has drained the stamina of a sprinting ball to 0 while the
\* stamina of a ball at rest is MAX_STAMINA.
C20_Witness ==
  \E pid \in Pids :
    /\ last.op = "gameLoop" /\ last.pid = pid
    /\ \E i \in Balls(pid) :
         /\ payloads[pid].players[i].stamina = 0
         /\ payloads[pid].players[i].lastInput.sprint
         /\ payloads[pid].players[i].survivalTime > 4000
    /\ \E i \in Balls(pid) :
         /\ payloads[pid].players[i].stamina = MAX_STAMINA
         /\ ~payloads[pid].players[i].isEliminated

\* Stamina values on which the stamina update is evaluated in every state:
\* the drain of a tick of StaminaDeltas takes some of them to 0 exactly and
\* some below 0.
StaminaLevels == {0, 45, 765, 9235, 10000, 45000, 100000}

\* C21: when the drain of a tick takes the stamina of a sprinting player to
\* 0, isSprinting is false after that tick's stamina update, whatever the
\* sprint flag of the input; so no player has stamina 0 and isSprinting.
C21_ExhaustedStopsSprinting ==
  \A pid \in Pids :
    \A i \in Balls(pid) :
      LET p == payloads[pid].players[i]
      IN  /\ p.stamina = 0 => ~p.isSprinting
          /\ ~p.isEliminated =>
               \A dt \in StaminaDeltas, input \in StaminaInputs,
                  level \in StaminaLevels :
                 LET r == updateStamina([p EXCEPT !.lastInput = input,
                                                  !.isSprinting = TRUE,
                                                  !.stamina = level], dt)
                 IN  r.stamina = 0 => ~r.isSprinting

\* The tick that just ran has drained a sprinting ball, whose input asks for
\* sprint, to stamina 0 and has stopped its sprint.
C21_Witness ==
  \E pid \in Pids :
    /\ last.op = "gameLoop" /\ last.pid = pid
    /\ \E i \in Balls(pid) :
         LET p == payloads[pid].players[i]
         IN  /\ p.stamina = 0
             /\ ~p.isSprinting
             /\ p.lastInput.sprint /\ p.lastInput.x # 0
             /\ p.survivalTime = 4000 + (now - TickStart)

\* C22: with ticks at the 60 Hz rate, a player that is not eliminated,
\* starts at stamina MAX_STAMINA and holds the input {x: 1, z: 0, sprint:
\* true} has had stamina 0 before SprintHorizon ms of play have passed, and
\* does not sprint while its stamina is below MIN_SPRINT_STAMINA.
C22_HeldSprintExhausts ==
  LET p == payloads[1].players[1]
  IN  /\ (\A dt \in TickDeltas : now + dt > SprintHorizon)
           => hist[1].lowest = 0
      /\ p.stamina < MIN_SPRINT_STAMINA => ~p.isSprinting

\* ------------------------------------------------------------------------
\* Collisions
\* ------------------------------------------------------------------------

\* C23: the collision resolution of two balls whose centers coincide divides
\* by no zero and leaves both balls with finite positions and velocities;
\* so no ball ever has a NaN coordinate.
C23_CoincidentCentersFinite ==
  \A pid \in Pids :
    \A i \in Balls(pid) : ~payloads[pid].players[i].nan

\* The balls of payload pid as checkCollisions finds them in a tick dt ms
\* after the last one (dt = 0: as they are).
BallsAfter(pid, dt) ==
  [i \in Balls(pid) |->
     IF dt = 0 \/ payloads[pid].players[i].isEliminated
     THEN payloads[pid].players[i]
     ELSE stepPlayer(payloads[pid].players[i], dt)]

CollisionDeltas == {0, TickPeriod, 1000}

\* Balls a and b overlap and their centers are distinct.
Colliding(a, b) ==
  /\ ~a.isEliminated /\ ~b.isEliminated
  /\ Overlapping(a, b)
  /\ a.position.x # b.position.x \/ a.position.z # b.position.z

\* C24: the resolution of an overlapping pair with distinct centers gives
\* each of the two balls the same position and velocity whichever of them
\* is passed as the first one.
C24_ResolutionOrderIndependent ==
  \A pid \in Pids :
    \A dt \in CollisionDeltas :
      \E bs \in {BallsAfter(pid, dt)} :
        \A i, j \in Balls(pid) :
          (i < j /\ Colliding(bs[i], bs[j])) =>
            \E ab \in {resolveCollision(bs[i], bs[j], now)} :
              \E ba \in {resolveCollision(bs[j], bs[i], now)} :
                /\ ab[1].position = ba[2].position
                /\ ab[1].velocity = ba[2].velocity
                /\ ab[2].position = ba[1].position
                /\ ab[2].velocity = ba[1].velocity
                /\ ab[1].nan = ba[2].nan /\ ab[2].nan = ba[1].nan

\* The tick that just ran has resolved a collision of two balls with
\* distinct centers: both have been knocked back and one has been marked as
\* hit by the other.
C24_Witness ==
  \E pid \in Pids :
    /\ last.op = "gameLoop" /\ last.pid = pid
    /\ \E i, j \in Balls(pid) :
         LET a == payloads[pid].players[i]
             b == payloads[pid].players[j]
         IN  /\ i # j
             /\ ~a.nan /\ ~b.nan
             /\ a.lastHitBy = b.socketId /\ a.lastHitTime = now
             /\ Hypot(a.velocity.x, a.velocity.z) > SPRINT_MAX_VELOCITY
             /\ Hypot(b.velocity.x, b.velocity.z) > SPRINT_MAX_VELOCITY

\* ------------------------------------------------------------------------
\* Snapshots
\* ------------------------------------------------------------------------

\* The snapshots among the messages of the last step: the gameData of
\* bumper:state-update and of bumper:game-end.
Snapshots ==
  {out[j].data : j \in {k \in 1..Len(out) : out[k].event = "bumper:state-update"}}
    \cup {out[j].data.gameData :
            j \in {k \in 1..Len(out) : out[k].event = "bumper:game-end"}}

ServerOnlyPlayerFields == {"acceleration", "lastInput", "lastHitBy", "lastHitTime"}

ServerOnlyGameFields == {"lastTickTime"}

\* C25: no snapshot sent in bumper:state-update or bumper:game-end has a
\* server-only field: its players have no acceleration, lastInput,
\* lastHitBy or lastHitTime, and the game data has no lastTickTime.
C25_SnapshotsSanitized ==
  \A snap \in Snapshots :
    /\ DOMAIN snap \cap ServerOnlyGameFields = {}
    /\ \A i \in 1..Len(snap.players) :
         DOMAIN snap.players[i] \cap ServerOnlyPlayerFields = {}

\* ------------------------------------------------------------------------
\* Move messages
\* ------------------------------------------------------------------------

\* The step is a bumper:move message of connection c.
MoveBy(c) == \E m \in MoveChoices : Move(c, m)

\* The index of connection c's ball in the room's current payload, 0 when
\* the room has no registry entry or c has no ball in it.
OwnBall(c) ==
  IF activeGames.present
  THEN IndexOf(payloads[activeGames.gameData].players, c)
  ELSE 0

\* C26: a move message changes nothing but the lastInput of the sender's
\* own ball, which becomes the movement of the message whatever was
\* received before; a tick steps every ball with the lastInput it has at
\* that time and leaves it in place.
C26_LastInputWins ==
  [][/\ \A c \in MoveConns, m \in MoveChoices :
          Move(c, m) =>
            /\ UNCHANGED <<now, lobby, activeGames, timers, hist, nextEid>>
            /\ out' = <<>>
            /\ Len(payloads') = Len(payloads)
            /\ \A pid \in Pids :
                 /\ [payloads'[pid] EXCEPT !.players = payloads[pid].players]
                      = payloads[pid]
                 /\ \A i \in Balls(pid) :
                      LET p == payloads[pid].players[i]
                          q == payloads'[pid].players[i]
                          own == pid = activeGames.gameData /\ i = OwnBall(c)
                      IN  /\ [q EXCEPT !.lastInput = p.lastInput] = p
                          /\ q.lastInput # p.lastInput => own
                          /\ (own /\ ~p.isEliminated) => q.lastInput = m
     /\ \A pid \in Pids :
          PlayingTick(pid) =>
            \E bs \in {BallsAfter(pid, now - payloads[pid].lastTickTime)} :
              \A i \in Balls(pid) :
                LET p == payloads[pid].players[i]
                    q == payloads'[pid].players[i]
                IN  /\ q.lastInput = p.lastInput
                    /\ ~p.isEliminated =>
                         /\ q.isSprinting = bs[i].isSprinting
                         /\ q.stamina = bs[i].stamina
                         /\ (\A j \in Balls(pid) \ {i} :
                               ~bs[j].isEliminated => ~Overlapping(bs[i], bs[j]))
                              => /\ q.position = bs[i].position
                                 /\ q.velocity = bs[i].velocity]_vars

\* Two move messages have arrived since the last tick, and the tick that
\* just ran has moved the first ball to the left, as the message received
\* last says, while the other balls have no input.
C26_Witness ==
  \E pid \in Pids :
    /\ last.op = "gameLoop" /\ last.pid = pid
    /\ now = TickStart
    /\ requests = MaxMoves - 2
    /\ payloads[pid].players[1].lastInput = [x |-> -1, z |-> 0, sprint |-> FALSE]
    /\ payloads[pid].players[1].velocity.x < 0
    /\ \A i \in Balls(pid) \ {1} : payloads[pid].players[i].lastInput = ZeroInput

\* C27: a move message for a room without a registry entry, or from a
\* connection that has no ball in the room's current payload, changes no
\* state and emits no message.
C27_StrayMoveIgnored ==
  [][\A c \in MoveConns :
       (MoveBy(c) /\ OwnBall(c) = 0) =>
         /\ UNCHANGED <<now, lobby, activeGames, payloads, timers, hist, nextEid>>
         /\ out' = <<>>]_vars

\* A connection that is no player of the room has sent a move message to a
\* game that is being played.
C27_Witness ==
  /\ last.op = "bumper:move"
  /\ last.conn = Outsider
  /\ activeGames.present
  /\ payloads[activeGames.gameData].status = "playing"
  /\ out = <<>>

\* ------------------------------------------------------------------------
\* Chat
\* ------------------------------------------------------------------------

\* C28: the chat history of the lobby never has more than CHAT_LIMIT
\* messages, whatever chat and system messages are added to it.
C28_ChatHistoryBounded == Len(lobby.messages) <= CHAT_LIMIT

\* ------------------------------------------------------------------------
\* Countdown and tick
\* ------------------------------------------------------------------------

\* The bumper:state-update messages of the step, in the order sent.
UpdatesNext == SelectSeq(out', LAMBDA m : m.event = "bumper:state-update")

\* Payload pid has not ended and is the last payload created for the room
\* (no game:start and no restart has replaced it).
Undisturbed(pid) ==
  /\ hist[pid].gameEnds = 0
  /\ pid = Len(payloads)

\* C29: for a payload that is neither replaced nor ended during its
\* countdown, every invocation of the countdown task broadcasts a snapshot
\* with status countdown and the next value of 3, 2, 1, 0; the invocation
\* that broadcasts 0 also cancels the countdown task, sets status playing,
\* broadcasts the playing snapshot and starts the tick and broadcast tasks,
\* which do not run before.
C29_CountdownSequence ==
  [][\A pid \in Pids :
       (CountdownFire(pid) /\ Undisturbed(pid)
          /\ payloads[pid].status = "countdown")
       => /\ Len(UpdatesNext) >= 1
          /\ UpdatesNext[1].data.status = "countdown"
          /\ UpdatesNext[1].data.countdownValue = timers[pid].count
          /\ timers'[pid].count = timers[pid].count - 1
          /\ ~timers[pid].gameLoop.armed /\ ~timers[pid].syncLoop.armed
          /\ IF timers[pid].count = 0
             THEN /\ Len(UpdatesNext) = 2
                  /\ UpdatesNext[2].data.status = "playing"
                  /\ payloads'[pid].status = "playing"
                  /\ ~timers'[pid].countdown.armed
                  /\ timers'[pid].gameLoop.armed /\ timers'[pid].syncLoop.armed
             ELSE /\ Len(UpdatesNext) = 1
                  /\ payloads'[pid].status = "countdown"
                  /\ timers'[pid].countdown.armed]_vars
\* The ball's position is one for which checkEliminations eliminates it.
OutOfPlay(p) ==
  \/ ~p.nan /\ BeyondRadius(p.position.x, p.position.z, PLATFORM_RADIUS)
  \/ p.position.y < FALL_THRESHOLD

\* C30: a tick runs the physics step once for every player that is not
\* eliminated, then the collision resolution, then the elimination check
\* and then the victory check, as one step: the balls it leaves are those of
\* the collision resolution of the stepped balls, the players it eliminates
\* are those that these positions put out of play, and it ends the game
\* according to the players left after these eliminations.
C30_TickOrder ==
  [][\A pid \in Pids :
       PlayingTick(pid) =>
         \E dt \in {now - payloads[pid].lastTickTime} :
         \E bs \in {checkCollisions(BallsAfter(pid, dt), 1, now)} :
           /\ payloads'[pid].lastTickTime = now
           /\ \A i \in Balls(pid) :
                LET p == payloads[pid].players[i]
                    q == payloads'[pid].players[i]
                IN  /\ q.position = bs[i].position
                    /\ q.velocity = bs[i].velocity
                    /\ q.nan = bs[i].nan
                    /\ q.survivalTime
                         = IF p.isEliminated THEN p.survivalTime
                           ELSE p.survivalTime + dt
                    /\ i \in Flipped(pid)
                         <=> (~p.isEliminated /\ OutOfPlay(bs[i]))
                    /\ i \in Flipped(pid) => q.eliminatedAt = now
           /\ payloads'[pid].status = "ended"
                <=> \/ Cardinality(AliveNext(pid)) <= 1
                    \/ /\ payloads[pid].gameMode = "timed"
                       /\ now - payloads[pid].startTime >= TIMED_DURATION * 1000
           /\ UNCHANGED now]_vars

\* One tick has resolved a collision, has eliminated a ball and has ended
\* the game.
C30_Witness ==
  \E pid \in Pids :
    /\ payloads[pid].status = "ended"
    /\ \E i \in Balls(pid) : OutThisTick(pid, i)
    /\ \E i \in Balls(pid) :
         /\ payloads[pid].players[i].lastHitTime = now
         /\ ~payloads[pid].players[i].isEliminated
         /\ ~payloads[pid].players[i].nan

\* ------------------------------------------------------------------------
\* Collision pairs
\* ------------------------------------------------------------------------

\* The pairs i < j of non-eliminated balls of ps whose centers are closer
\* than twice the ball radius.
TouchingPairs(ps) ==
  {pr \in (DOMAIN ps) \X (DOMAIN ps) :
     /\ pr[1] < pr[2]
     /\ ~ps[pr[1]].isEliminated /\ ~ps[pr[2]].isEliminated
     /\ Overlapping(ps[pr[1]], ps[pr[2]])}

\* The first pair of S in the order in which checkCollisions visits pairs.
FirstPair(S) ==
  CHOOSE pr \in S :
    \A qr \in S : pr[1] < qr[1] \/ (pr[1] = qr[1] /\ pr[2] <= qr[2])

\* The balls ps after each pair of S has been resolved once, in the order
\* of the visit.
RECURSIVE ResolvedOnce(_, _, _)
ResolvedOnce(ps, S, t) ==
  IF S = {} THEN ps
  ELSE With(FirstPair(S), LAMBDA pr :
       With(resolveCollision(ps[pr[1]], ps[pr[2]], t), LAMBDA r :
         ResolvedOnce([ps EXCEPT ![pr[1]] = r[1], ![pr[2]] = r[2]],
                      S \ {pr}, t)))

\* C31: a tick resolves exactly the pairs of non-eliminated balls that
\* overlap after its position integration, each of them once: the balls it
\* leaves have the positions, velocities and hit marks of these resolutions
\* (stated for the ticks in which no two centers coincide).
C31_OverlapsResolvedOnce ==
  [][\A pid \in Pids :
       (PlayingTick(pid) /\ \A k \in Balls(pid) : ~payloads'[pid].players[k].nan)
       =>
         \E bs \in {BallsAfter(pid, now - payloads[pid].lastTickTime)} :
         \E rs \in {ResolvedOnce(bs, TouchingPairs(bs), now)} :
           \A i \in Balls(pid) :
             LET q == payloads'[pid].players[i]
             IN  /\ q.position = rs[i].position
                 /\ q.velocity = rs[i].velocity
                 /\ q.nan = rs[i].nan
                 /\ q.lastHitBy = rs[i].lastHitBy
                 /\ q.lastHitTime = rs[i].lastHitTime]_vars

\* relVelX * nx + relVelZ * nz of resolveCollision for two balls with
\* distinct centers, in 1/100 unit/s.
VelAlongNormal(p1, p2) ==
  With(p2.position.x - p1.position.x, LAMBDA dx :
  With(p2.position.z - p1.position.z, LAMBDA dz :
  With(ISqrt((dx * dx + dz * dz) * 10000), LAMBDA dist :
    MulDiv(p2.velocity.x - p1.velocity.x, Div(dx * 100000, dist), 1000)
      + MulDiv(p2.velocity.z - p1.velocity.z, Div(dz * 100000, dist), 1000))))

\* C32: the resolution of an overlapping pair whose relative velocity along
\* the collision normal is >= 0 leaves both velocities and both balls'
\* lastHitBy and lastHitTime as they were.
C32_SeparatingPairKeepsVelocity ==
  \A pid \in Pids :
    \A dt \in CollisionDeltas :
      \E bs \in {BallsAfter(pid, dt)} :
        \A i, j \in Balls(pid) :
          (i < j /\ Colliding(bs[i], bs[j])
                 /\ VelAlongNormal(bs[i], bs[j]) >= 0) =>
            \E r \in {resolveCollision(bs[i], bs[j], now)} :
              /\ r[1].velocity = bs[i].velocity
              /\ r[2].velocity = bs[j].velocity
              /\ r[1].lastHitBy = bs[i].lastHitBy
              /\ r[1].lastHitTime = bs[i].lastHitTime
              /\ r[2].lastHitBy = bs[j].lastHitBy
              /\ r[2].lastHitTime = bs[j].lastHitTime

\* ------------------------------------------------------------------------
\* Final scores
\* ------------------------------------------------------------------------

\* The game-end notifications among the messages of the last step.
GameEndNotices == {k \in 1..Len(out) : out[k].event = "bumper:game-end"}

\* C33: in the finalScores table of a game-end notification for N players a
\* player that is not eliminated has place 1, the player at index i (from
\* 0) of eliminationOrder has place N - i, and the points are 100, 75, 50,
\* 25 for the places 1 to 4 and 10 for every other place.
C33_FinalScoresTable ==
  /\ \A place \in 1..(MAX_PLAYERS + 1) :
       PlaceScore(place) = IF place = 1 THEN 100
                           ELSE IF place = 2 THEN 75
                           ELSE IF place = 3 THEN 50
                           ELSE IF place = 4 THEN 25
                           ELSE 10
  /\ \A k \in GameEndNotices :
       LET gd == payloads[out[k].pid]
           fs == out[k].data.finalScores
           N == Len(gd.players)
       IN  /\ Len(fs) = N
           /\ \A i \in 1..N :
                /\ fs[i].socketId = gd.players[i].socketId
                /\ ~gd.players[i].isEliminated => fs[i].place = 1
                /\ \A j \in 1..Len(gd.eliminationOrder) :
                     (gd.players[i].isEliminated
                        /\ gd.eliminationOrder[j] = gd.players[i].socketId)
                     => fs[i].place = N - (j - 1)
                /\ fs[i].score = IF fs[i].place = 1 THEN 100
                                 ELSE IF fs[i].place = 2 THEN 75
                                 ELSE IF fs[i].place = 3 THEN 50
                                 ELSE IF fs[i].place = 4 THEN 25
                                 ELSE 10

\* A game of three has ended with two players eliminated: the table has the
\* first of them at place 3 and the second at place 2.
C33_Witness ==
  \E k \in GameEndNotices :
    LET gd == payloads[out[k].pid]
        fs == out[k].data.finalScores
    IN  /\ Len(gd.eliminationOrder) = 2
        /\ \E a, b, c \in 1..Len(fs) :
             /\ gd.eliminationOrder[1] = fs[a].socketId
             /\ fs[a].place = 3 /\ fs[a].score = 50
             /\ gd.eliminationOrder[2] = fs[b].socketId
             /\ fs[b].place = 2 /\ fs[b].score = 75
             /\ ~gd.players[c].isEliminated
             /\ fs[c].place = 1 /\ fs[c].score = 100

\* ------------------------------------------------------------------------
\* Restart and the registry
\* ------------------------------------------------------------------------

\* Payload p has been replaced by a restart.
Replaced(p) == \E q \in Pids : hist[q].restartOf = p

\* C34: an accepted restart keeps the room's registry entry object and puts
\* a new payload into it; right after it the entry's gameData and the
\* lobby's cached gameData are that same new payload, which is not the old
\* one; and a payload that a restart has replaced is never changed again.
C34_RestartReplacesPayloadOnly ==
  [][/\ (last'.op = "bumper:restart" /\ restartRejection(last'.conn) = "")
        => /\ activeGames'.present
           /\ activeGames'.eid = activeGames.eid
           /\ activeGames'.gameData \notin Pids
           /\ activeGames'.gameData # activeGames.gameData
           /\ lobby'.gameData = activeGames'.gameData
           /\ hist'[activeGames'.gameData].restartOf = activeGames.gameData
           /\ payloads'[activeGames.gameData] = payloads[activeGames.gameData]
     /\ \A p \in Pids : Replaced(p) => payloads'[p] = payloads[p]]_vars

\* A payload that was playing has been replaced by a restart, and the
\* payload that replaced it has reached its playing phase.
C34_Witness ==
  \E q \in Pids :
    /\ hist[q].restartOf # Null
    /\ payloads[hist[q].restartOf].status = "playing"
    /\ payloads[q].status = "playing"
    /\ Registered(q)
    /\ lobby.gameData = q

\* C35: the teardown timer of a payload that ended removes the room's
\* registry entry only if the entry still holds that payload: an entry that
\* holds the payload of a newer session is left in place, with its timers.
C35_TeardownSparesNewSession ==
  [][\A pid \in Pids :
       (/\ CleanupFire(pid)
        /\ activeGames.present
        /\ activeGames.gameData # pid)
       => /\ activeGames' = activeGames
          /\ timers'[activeGames.gameData] = timers[activeGames.gameData]]_vars

\* ------------------------------------------------------------------------
\* Eliminated players
\* ------------------------------------------------------------------------

\* C36: once a player is eliminated, the player's position, velocity,
\* stamina, isSprinting, survivalTime, eliminations, eliminatedAt and
\* lastInput (and isEliminated) keep their values in the payload under
\* every step: ticks, collisions, eliminations of others and move messages.
C36_EliminatedFrozen ==
  [][\A pid \in Pids :
       \A i \in Balls(pid) :
         LET p == payloads[pid].players[i]
             q == payloads'[pid].players[i]
         IN  p.isEliminated =>
               /\ q.isEliminated
               /\ q.position = p.position
               /\ q.velocity = p.velocity
               /\ q.nan = p.nan
               /\ q.stamina = p.stamina
               /\ q.isSprinting = p.isSprinting
               /\ q.survivalTime = p.survivalTime
               /\ q.eliminations = p.eliminations
               /\ q.eliminatedAt = p.eliminatedAt
               /\ q.lastInput = p.lastInput]_vars

\* A ball was eliminated by the first tick of the observation, a later tick
\* has run, and the player's connection has just sent a move message.
C36_Witness ==
  \E pid \in Pids :
    \E i \in Balls(pid) :
      /\ last.op = "bumper:move" /\ last.pid = pid
      /\ last.conn = payloads[pid].players[i].socketId
      /\ payloads[pid].players[i].isEliminated
      /\ payloads[pid].players[i].eliminatedAt = TickStart
      /\ payloads[pid].lastTickTime > TickStart
      /\ payloads[pid].players[i].lastInput = ZeroInput

\* The sum of the eliminations counters of the players ps.
RECURSIVE TotalEliminations(_)
TotalEliminations(ps) ==
  IF ps = <<>> THEN 0
  ELSE Head(ps).eliminations + TotalEliminations(Tail(ps))

\* C37: in every payload each player's eliminations counter never
\* decreases, the counters together never exceed the length of
\* eliminationOrder, and a counter grows by no more than the number of other
\* players eliminated in the step whose last hit was by that player.
C37_EliminationCounters ==
  [][\A pid \in Pids :
       /\ TotalEliminations(payloads[pid].players)
            <= Len(payloads[pid].eliminationOrder)
       /\ TotalEliminations(payloads'[pid].players)
            <= Len(payloads'[pid].eliminationOrder)
       /\ \A i \in Balls(pid) :
            LET p == payloads[pid].players[i]
                q == payloads'[pid].players[i]
            IN  /\ q.eliminations >= p.eliminations
                /\ q.eliminations - p.eliminations
                     <= Cardinality({v \in Flipped(pid) \ {i} :
                           payloads'[pid].players[v].lastHitBy = p.socketId})]_vars

\* The tick that just ran has eliminated a ball whose last hit was by a
\* player that had an elimination before: that player now has two, and two
\* players are in eliminationOrder.
C37_Witness ==
  \E pid \in Pids :
    \E i, v \in Balls(pid) :
      /\ i # v
      /\ OutThisTick(pid, v)
      /\ payloads[pid].players[v].lastHitBy = payloads[pid].players[i].socketId
      /\ payloads[pid].players[i].eliminations = 2
      /\ Len(payloads[pid].eliminationOrder) = 2

\* C38: in every game-end notification the player named by winnerId has
\* place 1 in the finalScores table, and the places of the table are a
\* permutation of 1..N.
C38_PlacesArePermutation ==
  \A k \in GameEndNotices :
    LET fs == out[k].data.finalScores
        N == Len(fs)
    IN  /\ \A i \in 1..N :
             fs[i].socketId = out[k].data.winnerId => fs[i].place = 1
        /\ \E i \in 1..N : fs[i].socketId = out[k].data.winnerId
        /\ \A i, j \in 1..N : fs[i].place = fs[j].place => i = j
        /\ \A i \in 1..N : fs[i].place \in 1..N

\* ------------------------------------------------------------------------
\* Tasks of a payload
\* ------------------------------------------------------------------------

\* The payloads whose task of the given kind is running and would act on
\* the payload registered for the room.
ActingTasks(kind) == {q \in Pids : timers[q][kind].armed /\ IsCurrent(q)}

\* C39: for every payload the countdown is started at most once and the
\* tick and broadcast tasks are started at most once, and at most one
\* countdown, one tick and one broadcast task can act on the payload that is
\* registered for the room.
C39_TasksStartedOnce ==
  /\ \A pid \in Pids :
       /\ hist[pid].countdowns <= 1
       /\ hist[pid].loops <= 1
       /\ (timers[pid].gameLoop.armed \/ timers[pid].syncLoop.armed)
            => hist[pid].loops = 1
       /\ timers[pid].countdown.armed => hist[pid].countdowns = 1
  /\ \A kind \in TimerOps : Cardinality(ActingTasks(kind)) <= 1

\* The payload of a restart is registered and its tick and broadcast tasks
\* run, after the tasks of the payload it replaced had been started too.
C39_Witness ==
  \E q \in Pids :
    /\ Registered(q)
    /\ hist[q].restartOf # Null
    /\ hist[hist[q].restartOf].loops = 1
    /\ hist[q].loops = 1
    /\ timers[q].gameLoop.armed /\ timers[q].syncLoop.armed
    /\ ~timers[q].countdown.armed

\* ------------------------------------------------------------------------
\* The countdown phase
\* ------------------------------------------------------------------------

\* C40: while a payload's status is countdown no step changes anything of a
\* player but lastInput, and none eliminates a player or declares a winner:
\* a move message changes only lastInput, a countdown invocation that
\* leaves the payload in countdown changes only countdownValue, and only a
\* manual end ends the payload.
C40_CountdownFreezesBalls ==
  [][\A pid \in Pids :
       payloads[pid].status = "countdown" =>
         /\ \A i \in Balls(pid) :
              [payloads'[pid].players[i]
                 EXCEPT !.lastInput = payloads[pid].players[i].lastInput]
                = payloads[pid].players[i]
         /\ payloads'[pid].alivePlayers = payloads[pid].alivePlayers
         /\ payloads'[pid].eliminationOrder = payloads[pid].eliminationOrder
         /\ payloads'[pid].status = "ended" => last'.op = "game:end"
         /\ payloads'[pid].status # "ended"
              => payloads'[pid].winnerId = payloads[pid].winnerId
         /\ last'.op = "bumper:move"
              => [payloads'[pid] EXCEPT !.players = payloads[pid].players]
                   = payloads[pid]
         /\ (last'.op = "countdown" /\ payloads'[pid].status = "countdown")
              => /\ [payloads'[pid] EXCEPT
                       !.countdownValue = payloads[pid].countdownValue]
                      = payloads[pid]
         /\ last'.op \in {"gameLoop", "syncLoop", "cleanup", "advance"}
              => payloads'[pid] = payloads[pid]]_vars

\* During the countdown, after the countdown task has run, a move message
\* of a player has just replaced the lastInput of the player's ball, which
\* still is at rest.
C40_Witness ==
  \E pid \in Pids :
    \E i \in Balls(pid) :
      /\ last.op = "bumper:move" /\ last.pid = pid
      /\ last.conn = payloads[pid].players[i].socketId
      /\ Registered(pid)
      /\ payloads[pid].status = "countdown"
      /\ payloads[pid].countdownValue < COUNTDOWN_DURATION
      /\ payloads[pid].players[i].lastInput # ZeroInput
      /\ payloads[pid].players[i].velocity = [x |-> 0, y |-> 0, z |-> 0]
      /\ payloads[pid].players[i].survivalTime = 0

====
